---- MODULE Spec2Model ----
(***************************************************************************)
(* SplitBucks backend: the ledger round (routes/run.py), the JSON store    *)
(* (storage/json_store.py) and the CSV history log                         *)
(* (storage/history_store.py).                                             *)
(*                                                                         *)
(* Representation.                                                         *)
(*   - a Python str is a sequence of one-character strings;                *)
(*   - a Decimal quantized to 0.01 is an integer number of cents; an       *)
(*     unquantized numeric input is an integer number of mills (0.001);    *)
(*   - a Python dict (insertion ordered) is a sequence of <<key, value>>   *)
(*     pairs with distinct keys;                                           *)
(*   - a file is a record [exists, data, whole]; a CSV file's data is the  *)
(*     sequence of the rows csv.writer wrote, each row the sequence of its *)
(*     fields; the reader's text layer translates line ends inside them.   *)
(*                                                                         *)
(* Specifications.                                                         *)
(*   Spec            every registered endpoint, one request at a time      *)
(*   SpecLedger      POST /api/run only, several rounds                    *)
(*   SpecKeepPeople  every writing endpoint but /api/remove-person         *)
(*   SpecPrices      POST /api/set-price with amounts and names of every   *)
(*                   kind, around a round                                  *)
(*   SpecRemove      POST /api/remove-person down to an empty Price        *)
(*                   record, around a round                                *)
(*   SpecSeed        the five endpoints that seed the defaults, with       *)
(*                   removals down to an empty Price record                *)
(*   SpecHist        the history log on its own                            *)
(*   SpecSave        save_json step by step, with failures and crashes     *)
(*   SpecRace        two POST /api/run requests interleaved step by step   *)
(*   SpecFail        the same, a request can fail between two steps        *)
(*   SpecPriceRace   a POST /api/set-price and a POST /api/run interleaved *)
(*                   load by load and save by save                         *)
(*   SpecCycle       rounds over everyone, with equal prices and equal     *)
(*                   balances to start with                                *)
(*   SpecSelect      the two payer selectors as functions                  *)
(*   SpecMoney       the two money functions as functions                  *)
(***************************************************************************)
EXTENDS Integers, Sequences, FiniteSets, TLC

\* ------------------------------------------------------------------------
\* Bounds of the model
\* ------------------------------------------------------------------------
\* rounds executed in a behaviour of Spec (all the endpoints)
MaxRounds == 1
\* rounds executed in a behaviour of SpecLedger (rounds only)
MaxLedgerRounds == 2
\* rounds executed in a behaviour of SpecKeepPeople (no person is removed)
MaxKeepRounds == 2
\* rounds executed in a behaviour of SpecPrices (prices are set)
MaxPriceRounds == 1
\* appends in a behaviour of SpecHist (the history log on its own)
MaxAppends == 3
\* largest amount, in thousandths, handed to money in SpecMoney (next to
\* 2.345)
MaxMills == 50
\* calls of money in a behaviour of SpecMoney
MaxMoneyCalls == 2
\* calls of save_json in a behaviour of SpecSave
MaxSaves == 2
\* rounds executed in a behaviour of SpecCycle (equal prices)
MaxCycleRounds == 4

\* ------------------------------------------------------------------------
\* Python str helpers
\* ------------------------------------------------------------------------
\* Characters in code point order (str comparison compares code points).
CodePoints ==
  << "\t", "\n", "\r", " ", "'", "-", ".",
     "0", "1", "2", "3", "4", "5", "6", "7", "8", "9",
     "A", "B", "J", "S", "T", "X", "_", "a", "b", "c", "d", "e", "i", "l",
     "m", "o", "p", "r", "s", "t", "y", "|" >>

Ord(c) == CHOOSE i \in DOMAIN CodePoints : CodePoints[i] = c

MinOf(a, b) == IF a <= b THEN a ELSE b

\* a < b for Python str
StrLess(a, b) ==
  \E i \in 1..(MinOf(Len(a), Len(b)) + 1) :
     /\ \A j \in 1..(i - 1) : a[j] = b[j]
     /\ \/ (i = Len(a) + 1 /\ i <= Len(b))
        \/ (i <= Len(a) /\ i <= Len(b) /\ Ord(a[i]) < Ord(b[i]))

Digits == << "0", "1", "2", "3", "4", "5", "6", "7", "8", "9" >>

DigitChar(d) == Digits[d + 1]

IsDigit(c) == \E i \in DOMAIN Digits : Digits[i] = c

DigitVal(c) == (CHOOSE i \in DOMAIN Digits : Digits[i] = c) - 1

RECURSIVE NatToStr(_)
NatToStr(n) ==
  IF n < 10 THEN << DigitChar(n) >>
  ELSE NatToStr(n \div 10) \o << DigitChar(n % 10) >>

RECURSIVE StrToNat(_)
StrToNat(s) ==
  IF s = << >> THEN 0
  ELSE 10 * StrToNat(SubSeq(s, 1, Len(s) - 1)) + DigitVal(s[Len(s)])

\* sep.join(parts)
RECURSIVE Join(_, _)
Join(sep, parts) ==
  IF parts = << >> THEN << >>
  ELSE IF Len(parts) = 1 THEN parts[1]
  ELSE parts[1] \o sep \o Join(sep, Tail(parts))

\* s.split(sep) for a one-character separator: always at least one piece
RECURSIVE Split(_, _)
Split(s, sep) ==
  IF \E i \in DOMAIN s : s[i] = sep
  THEN LET i == CHOOSE k \in DOMAIN s :
                   s[k] = sep /\ \A j \in 1..(k - 1) : s[j] # sep
       IN  << SubSeq(s, 1, i - 1) >> \o Split(SubSeq(s, i + 1, Len(s)), sep)
  ELSE << s >>

\* ------------------------------------------------------------------------
\* Python dict helpers (insertion ordered)
\* ------------------------------------------------------------------------
EmptyDict == << >>

\* mutant: the last key is left out
DictKeys_DropLast(d) == [i \in 1..(Len(d) - 1) |-> d[i][1]]
DictKeys(d) == [i \in DOMAIN d |-> d[i][1]]

DictHas(d, k) == \E i \in DOMAIN d : d[i][1] = k

DictGet(d, k) == d[CHOOSE i \in DOMAIN d : d[i][1] = k][2]

\* d.get(k, dflt)
DictGetOr(d, k, dflt) == IF DictHas(d, k) THEN DictGet(d, k) ELSE dflt

\* mutant: the entry after that of k takes the value too
DictSet_Spill(d, k, v) ==
  IF DictHas(d, k)
  THEN [i \in DOMAIN d |->
          IF d[i][1] = k \/ (i > 1 /\ d[i - 1][1] = k)
          THEN << d[i][1], v >> ELSE d[i]]
  ELSE Append(d, << k, v >>)
\* d[k] = v : an existing key keeps its position, a new key goes last
DictSet(d, k, v) ==
  IF DictHas(d, k)
  THEN [i \in DOMAIN d |-> IF d[i][1] = k THEN << k, v >> ELSE d[i]]
  ELSE Append(d, << k, v >>)

\* mutant: the default is never stored
DictSetDefault_Skip(d, k, v) == d

\* d.setdefault(k, v)
DictSetDefault(d, k, v) == IF DictHas(d, k) THEN d ELSE Append(d, << k, v >>)

\* mutant: the first entry is deleted, whatever its key
DictDel_First(d, k) == Tail(d)
\* del d[k] (guarded by "k in d" at every call site)
DictDel(d, k) == SelectSeq(d, LAMBDA kv : kv[1] # k)

\* {k: f(v) for k, v in d.items()}
DictMapValues(d, F(_)) == [i \in DOMAIN d |-> << d[i][1], F(d[i][2]) >>]

SeqToSet(s) == {s[i] : i \in DOMAIN s}

\* the names of a list, each once, in order of first occurrence
RECURSIVE Dedup(_)
Dedup(seq) ==
  IF seq = << >> THEN << >>
  ELSE LET init == Dedup(SubSeq(seq, 1, Len(seq) - 1))
           x == seq[Len(seq)]
       IN  IF x \in SeqToSet(init) THEN init ELSE Append(init, x)

\* ------------------------------------------------------------------------
\* storage/money_utils.py
\* ------------------------------------------------------------------------
\* A value with two decimals seen as an unquantized Decimal (mills).
Mills(cents) == 10 * cents

\* money(value): quantize to 0.01 with ROUND_HALF_UP (ties away from zero).
\* Input in mills, result in cents.
money(m) ==
  IF m >= 0 THEN (m + 5) \div 10 ELSE 0 - ((5 - m) \div 10)

\* A value handed to a money function is None, a text that Decimal() does
\* not parse, or a number (in mills).
NoneValue == [none |-> TRUE, parsable |-> FALSE, mills |-> 0]
TextValue == [none |-> FALSE, parsable |-> FALSE, mills |-> 0]
NumberValue(m) == [none |-> FALSE, parsable |-> TRUE, mills |-> m]

\* money(value) as a whole: None and what Decimal(str(value)) does not parse
\* give 0.00. The result is [raises, cents].
money_value(value) ==
  IF value.none THEN [raises |-> FALSE, cents |-> 0]
  ELSE IF ~value.parsable THEN [raises |-> FALSE, cents |-> 0]
  ELSE [raises |-> FALSE, cents |-> money(value.mills)]

\* ------------------------------------------------------------------------
\* utils/money.py (imported by storage/history_store.py)
\* ------------------------------------------------------------------------
\* money(x) == x.quantize(CENTS, rounding=ROUND_HALF_UP): what is not a
\* Decimal has no quantize, the call raises AttributeError
utils_money(x) ==
  IF x.none \/ ~x.parsable THEN [raises |-> TRUE, cents |-> 0]
  ELSE [raises |-> FALSE, cents |-> money(x.mills)]

\* ------------------------------------------------------------------------
\* Files
\* ------------------------------------------------------------------------
\* A file has its content in data; whole is FALSE while the text of a JSON
\* file stops before its end (data then holds the items written so far).
NoFile == [exists |-> FALSE, data |-> << >>, whole |-> TRUE]

FileOf(content) == [exists |-> TRUE, data |-> content, whole |-> TRUE]

PartFile(content) == [exists |-> TRUE, data |-> content, whole |-> FALSE]

\* ------------------------------------------------------------------------
\* storage/history_store.py
\* ------------------------------------------------------------------------
S_timestamp == << "t", "i", "m", "e", "s", "t", "a", "m", "p" >>
S_payer == << "p", "a", "y", "e", "r" >>
S_total_cost == << "t", "o", "t", "a", "l", "_", "c", "o", "s", "t" >>
S_people == << "p", "e", "o", "p", "l", "e" >>

HEADER == << S_timestamp, S_payer, S_total_cost, S_people >>

\* f"{d:.2f}" of a Decimal given in cents
FormatMoney(c) ==
  LET a == IF c < 0 THEN 0 - c ELSE c
  IN  (IF c < 0 THEN << "-" >> ELSE << >>)
        \o NatToStr(a \div 100)
        \o << ".", DigitChar((a % 100) \div 10), DigitChar(a % 10) >>

\* float(s) of a decimal literal with at most two fractional digits; the
\* float is represented by its value in cents
ParseFloat(s) ==
  LET neg == s # << >> /\ s[1] = "-"
      body == IF neg THEN Tail(s) ELSE s
      parts == Split(body, ".")
      frac == IF Len(parts) > 1 THEN parts[2] ELSE << >>
      fracCents ==
        IF Len(frac) = 0 THEN 0
        ELSE IF Len(frac) = 1 THEN 10 * StrToNat(frac)
        ELSE StrToNat(SubSeq(frac, 1, 2))
      a == 100 * StrToNat(parts[1]) + fracCents
  IN  IF neg THEN 0 - a ELSE a

\* mutant: the header is written over an existing file too
ensure_history_Rewrite(f) == FileOf(<< HEADER >>)
ensure_history(f) == IF ~f.exists THEN FileOf(<< HEADER >>) ELSE f

\* mutant: no row is written
append_history_row_Skip(f, timestamp, payer, total_cost, people) ==
  ensure_history(f)
append_history_row(f, timestamp, payer, total_cost, people) ==
  LET g == ensure_history(f)
      row == << timestamp, payer, FormatMoney(money(Mills(total_cost))),
                Join(<< "|" >>, people) >>
  IN  FileOf(Append(g.data, row))

\* csv.DictReader: the first row names the columns of all later rows
HasColumn(fieldnames, col) == \E i \in DOMAIN fieldnames : fieldnames[i] = col

RowGet(fieldnames, row, col) ==
  row[CHOOSE i \in DOMAIN fieldnames : fieldnames[i] = col]

\* row[...] raises KeyError when a column is missing from the first row
read_history_raises(f) ==
  /\ f.exists
  /\ Len(f.data) >= 2
  /\ \E col \in {S_timestamp, S_payer, S_total_cost, S_people} :
        ~HasColumn(f.data[1], col)

\* open(path, "r") without newline="": the text layer hands "\r\n" and a
\* lone "\r" to csv.DictReader as "\n", inside quoted fields too
RECURSIVE TranslateNewlines(_)
TranslateNewlines(s) ==
  IF s = << >> THEN << >>
  ELSE IF Head(s) = "\r"
       THEN << "\n" >> \o TranslateNewlines(
              IF Len(s) > 1 /\ s[2] = "\n" THEN Tail(Tail(s)) ELSE Tail(s))
       ELSE << Head(s) >> \o TranslateNewlines(Tail(s))

UniversalNewlines(s) ==
  IF \E i \in DOMAIN s : s[i] = "\r" THEN TranslateNewlines(s) ELSE s

ParseRow(fieldnames, raw) ==
  LET row == [i \in DOMAIN raw |-> UniversalNewlines(raw[i])]
      tc == RowGet(fieldnames, row, S_total_cost)
      pp == RowGet(fieldnames, row, S_people)
  IN  [timestamp |-> RowGet(fieldnames, row, S_timestamp),
       payer |-> RowGet(fieldnames, row, S_payer),
       total_cost |-> IF tc # << >> THEN ParseFloat(tc) ELSE 0,
       people |-> IF pp # << >> THEN Split(pp, "|") ELSE << >>]

\* mutant: the first row is read as an entry like the others
read_history_FirstRowToo(f) ==
  IF ~f.exists \/ f.data = << >> THEN << >>
  ELSE << [timestamp |-> f.data[1][1], payer |-> f.data[1][2],
           total_cost |-> 0, people |-> << >>] >>
       \o [i \in 1..(Len(f.data) - 1) |-> ParseRow(f.data[1], f.data[i + 1])]
read_history(f) ==
  IF ~f.exists \/ f.data = << >> THEN << >>
  ELSE [i \in 1..(Len(f.data) - 1) |-> ParseRow(f.data[1], f.data[i + 1])]

\* mutant: only a missing log gets the header, the rows stay
reset_history_KeepRows(f) == ensure_history(f)
reset_history(f) == FileOf(<< HEADER >>)

\* ------------------------------------------------------------------------
\* storage/json_store.py
\* ------------------------------------------------------------------------
Bob == << "B", "o", "b" >>
Jim == << "J", "i", "m" >>
Sara == << "S", "a", "r", "a" >>

\* {"Bob": 4.50, "Jim": 3.00, "Sara": 5.00}
DefaultPrices == << << Bob, 450 >>, << Jim, 300 >>, << Sara, 500 >> >>

\* json.load of the file, or the default when the file does not exist
load_json(f, default) == IF ~f.exists THEN default ELSE f.data

\* json.load raises JSONDecodeError on a text that stops before its end
\* (the empty text included)
load_json_raises(f) == f.exists /\ ~f.whole

\* mutant: the file is left as it is
save_json_Dropped(f, data) == f
\* the temporary file is written in full, then os.replace swaps it in (the
\* steps in between are followed in SpecSave)
save_json(f, data) == FileOf(data)

\* money(v) of a stored number
MoneyOfStored(v) == money(Mills(v))

\* mutant: the last price is lost on loading
normalize_prices_DropLast(raw) ==
  SubSeq(DictMapValues(raw, MoneyOfStored), 1, Len(raw) - 1)
normalize_prices(raw) == DictMapValues(raw, MoneyOfStored)

\* mutant: every balance is loaded as 0.00
normalize_balances_Zero(raw) == DictMapValues(raw, LAMBDA v : 0)
normalize_balances(raw) == DictMapValues(raw, MoneyOfStored)

\* for name in prices_dec: balances_dec.setdefault(name, Decimal("0.00"))
RECURSIVE SetDefaultAll(_, _)
SetDefaultAll(balances, names) ==
  IF names = << >> THEN balances
  ELSE SetDefaultAll(DictSetDefault(balances, Head(names), 0), Tail(names))

\* mutant: the default prices are seeded over whatever is stored
_ensure_defaults_AlwaysSeed(pf, bf, hf) ==
  LET raw_balances == load_json(bf, EmptyDict)
      prices_dec == normalize_prices(DefaultPrices)
      balances_dec ==
        SetDefaultAll(normalize_balances(raw_balances), DictKeys(prices_dec))
  IN  [prices_file |-> save_json(pf, prices_dec),
       balances_file |-> save_json(bf, balances_dec),
       history_file |-> ensure_history(hf),
       prices_dec |-> prices_dec,
       balances_dec |-> balances_dec]

\* The files after the call and the two returned dicts.
_ensure_defaults(pf, bf, hf) ==
  LET raw_prices == load_json(pf, EmptyDict)
      raw_balances == load_json(bf, EmptyDict)
      seeded == IF raw_prices = EmptyDict THEN DefaultPrices ELSE raw_prices
      prices_dec == normalize_prices(seeded)
      balances_dec ==
        SetDefaultAll(normalize_balances(raw_balances), DictKeys(prices_dec))
  IN  [prices_file |-> save_json(pf, prices_dec),
       balances_file |-> save_json(bf, balances_dec),
       history_file |-> ensure_history(hf),
       prices_dec |-> prices_dec,
       balances_dec |-> balances_dec]

RECURSIVE SumPrices(_, _)
SumPrices(prices, included) ==
  IF included = << >> THEN 0
  ELSE DictGet(prices, Head(included)) + SumPrices(prices, Tail(included))

\* mutant: a name given twice is charged twice but counted once in the total
compute_total_cost_CountOnce(prices, people) ==
  LET included == SelectSeq(people, LAMBDA p : DictHas(prices, p))
  IN  [total |-> money(Mills(SumPrices(prices, Dedup(included)))),
       included |-> included]

compute_total_cost(prices, people) ==
  LET included == SelectSeq(people, LAMBDA p : DictHas(prices, p))
  IN  [total |-> money(Mills(SumPrices(prices, included))),
       included |-> included]

\* mutant: max(...) instead of min(...)
SeqMin_Max(vals) ==
  CHOOSE v \in SeqToSet(vals) : \A w \in SeqToSet(vals) : v >= w

\* min(...) over a non-empty sequence of numbers
SeqMin(vals) ==
  CHOOSE v \in SeqToSet(vals) : \A w \in SeqToSet(vals) : v <= w

\* timestamp of the last row paid by p, "" when p never paid
LastTime(history, p) ==
  IF \E i \in DOMAIN history : history[i].payer = p
  THEN history[CHOOSE i \in DOMAIN history :
                 /\ history[i].payer = p
                 /\ \A j \in DOMAIN history :
                      history[j].payer = p => j <= i].timestamp
  ELSE << >>

\* sorted(seq, key=...) is stable: x goes after every element whose key is
\* not greater than its own
InsertByKey(sorted, x, key) ==
  LET pos == IF \E i \in DOMAIN sorted : StrLess(key[x], key[sorted[i]])
             THEN CHOOSE i \in DOMAIN sorted :
                    /\ StrLess(key[x], key[sorted[i]])
                    /\ \A j \in 1..(i - 1) : ~StrLess(key[x], key[sorted[j]])
             ELSE Len(sorted) + 1
  IN  SubSeq(sorted, 1, pos - 1) \o << x >> \o SubSeq(sorted, pos, Len(sorted))

RECURSIVE SortedByKey(_, _)
SortedByKey(seq, key) ==
  IF seq = << >> THEN << >>
  ELSE InsertByKey(SortedByKey(SubSeq(seq, 1, Len(seq) - 1), key),
                   seq[Len(seq)], key)

\* min() of an empty sequence raises ValueError; a name without balance
\* counts as 0.00 and raises nothing
select_payer_raises(balances, people) == people = << >>

\* mutant: a strategy that is neither random nor least_recent returns the
\* first tied name without looking at the history
select_payer_UnknownFirst(balances, people, tie_strategy, history) ==
  LET bal(p) == DictGetOr(balances, p, 0)
      lowest_balance == SeqMin([i \in DOMAIN people |-> bal(people[i])])
      tied == SelectSeq(people, LAMBDA p : bal(p) = lowest_balance)
      last_times == [p \in SeqToSet(tied) |-> LastTime(history, p)]
  IN  IF Len(tied) = 1 THEN {tied[1]}
      ELSE IF tie_strategy = "random" THEN SeqToSet(tied)
      ELSE IF history # << >> /\ tie_strategy = "least_recent"
           THEN {SortedByKey(tied, last_times)[1]}
      ELSE {tied[1]}
\* The set of names select_payer can return (random.choice is the only
\* source of choice).
select_payer(balances, people, tie_strategy, history) ==
  LET bal(p) == DictGetOr(balances, p, 0)
      lowest_balance == SeqMin([i \in DOMAIN people |-> bal(people[i])])
      tied == SelectSeq(people, LAMBDA p : bal(p) = lowest_balance)
      last_times == [p \in SeqToSet(tied) |-> LastTime(history, p)]
  IN  IF Len(tied) = 1 THEN {tied[1]}
      ELSE IF tie_strategy = "random" THEN SeqToSet(tied)
      ELSE IF history # << >> THEN {SortedByKey(tied, last_times)[1]}
      ELSE {tied[1]}

\* datetime.utcnow().replace(microsecond=0).isoformat(): fixed width, so
\* that str order is time order
now_iso(t) == << "T", DigitChar(t \div 10), DigitChar(t % 10) >>

Letters == { "A", "B", "J", "S", "T", "X", "a", "b", "c", "d", "e", "i", "l",
             "m", "o", "p", "r", "s", "t", "y" }

\* the characters \s matches in a str pattern
Whitespace == { " ", "\t", "\n", "\r" }

\* re.fullmatch(r"[A-Za-z][A-Za-z\s\-']{0,39}", name)
validate_person_name(name) ==
  /\ Len(name) >= 1
  /\ Len(name) <= 40
  /\ name[1] \in Letters
  /\ \A i \in 2..Len(name) :
        name[i] \in Letters \cup Whitespace \cup { "-", "'" }

\* Decimal.quantize(Decimal("0.01")) under the default context rounds half
\* to even; input in mills (> 0), result in cents
QuantizeHalfEven(m) ==
  LET q == m \div 10
      r == m % 10
  IN  IF r > 5 \/ (r = 5 /\ q % 2 = 1) THEN q + 1 ELSE q

\* An input is [parsable, mills]; the result is [none, value].
parse_price_to_decimal(price) ==
  IF ~price.parsable THEN [none |-> TRUE, value |-> 0]
  ELSE IF price.mills > 0
       THEN [none |-> FALSE, value |-> QuantizeHalfEven(price.mills)]
       ELSE [none |-> TRUE, value |-> 0]

\* ------------------------------------------------------------------------
\* utils/tie_strategies.py (imported by the tests, by no registered route)
\* ------------------------------------------------------------------------
\* mutant: every strategy is taken for random
StripLower_AllRandom(tie_strategy) == "random"
\* (tie_strategy or "least_recent").strip().lower() on the strategy strings
\* of the model
StripLower(tie_strategy) ==
  CASE tie_strategy = "" -> "least_recent"
    [] tie_strategy = " Random " -> "random"
    [] tie_strategy = "ALPHA" -> "alpha"
    [] OTHER -> tie_strategy

\* datetime.fromisoformat(ts): None for a falsy or malformed text, else the
\* time, here the number of the second
_parse_iso(ts) ==
  IF Len(ts) = 3 /\ ts[1] = "T" /\ IsDigit(ts[2]) /\ IsDigit(ts[3])
  THEN [none |-> FALSE, t |-> StrToNat(SubSeq(ts, 2, 3))]
  ELSE [none |-> TRUE, t |-> 0]

\* last.get(name) of last = _last_paid_map(history): the latest time among
\* the rows paid by name, rows without payer or time being skipped
_last_paid_map(history, name) ==
  LET rows == { i \in DOMAIN history :
                  /\ history[i].payer # << >>
                  /\ history[i].payer = name
                  /\ ~_parse_iso(history[i].timestamp).none }
      times == { _parse_iso(history[i].timestamp).t : i \in rows }
  IN  IF rows = {} THEN [none |-> TRUE, t |-> 0]
      ELSE [none |-> FALSE,
            t |-> CHOOSE t \in times : \A u \in times : u <= t]

\* the payer of the last row whose payer is one of names, None without one
_most_recent_from_set(history, names) ==
  LET rows == { i \in DOMAIN history : history[i].payer \in SeqToSet(names) }
  IN  IF rows = {} THEN [none |-> TRUE, name |-> << >>]
      ELSE [none |-> FALSE,
            name |-> history[CHOOSE i \in rows : \A j \in rows : j <= i].payer]

\* mutant: the name decides in descending order
KeyLess_NameDescending(history, a, b) ==
  LET la == _last_paid_map(history, a)
      lb == _last_paid_map(history, b)
      ra == IF la.none THEN 0 ELSE 1
      rb == IF lb.none THEN 0 ELSE 1
  IN  \/ ra < rb
      \/ ra = rb /\ la.t < lb.t
      \/ ra = rb /\ la.t = lb.t /\ StrLess(b, a)
\* key(a) < key(b) for key(name) = (never_rank, lp or datetime.min, name)
KeyLess(history, a, b) ==
  LET la == _last_paid_map(history, a)
      lb == _last_paid_map(history, b)
      ra == IF la.none THEN 0 ELSE 1
      rb == IF lb.none THEN 0 ELSE 1
  IN  \/ ra < rb
      \/ ra = rb /\ la.t < lb.t
      \/ ra = rb /\ la.t = lb.t /\ StrLess(a, b)

\* present = [c for c in candidates if c in balances]
Present(balances, candidates) ==
  SelectSeq(candidates, LAMBDA c : DictHas(balances, c))

\* raise ValueError("No valid candidates")
tie_select_payer_raises(balances, candidates) ==
  Present(balances, candidates) = << >>

\* mutant: any candidate with a balance can be returned
tie_select_payer_AnyPresent(balances, candidates, tie_strategy, history) ==
  SeqToSet(Present(balances, candidates))
\* The set of names select_payer of utils/tie_strategies.py can return
\* (rng.choice is the only source of choice); empty when it raises.
tie_select_payer(balances, candidates, tie_strategy, history) ==
  LET present == Present(balances, candidates)
      min_paid == SeqMin([i \in DOMAIN present |->
                            DictGet(balances, present[i])])
      ties == SelectSeq(present, LAMBDA c : DictGet(balances, c) = min_paid)
      s == StripLower(tie_strategy)
      ordered == SortedByKey(ties, [c \in SeqToSet(ties) |-> c])
      recent == _most_recent_from_set(history, ordered)
      i == CHOOSE k \in DOMAIN ordered :
             /\ ordered[k] = recent.name
             /\ \A j \in 1..(k - 1) : ordered[j] # recent.name
  IN  IF present = << >> THEN {}
      ELSE IF Len(ties) = 1 THEN { ties[1] }
      ELSE IF s = "alpha" THEN { ordered[1] }
      ELSE IF s = "random" THEN SeqToSet(ties)
      ELSE IF s = "round_robin"
           THEN IF recent.none THEN { ordered[1] }
                ELSE { ordered[(i % Len(ordered)) + 1] }
      ELSE { c \in SeqToSet(ties) :
               \A e \in SeqToSet(ties) : ~KeyLess(history, e, c) }

\* ------------------------------------------------------------------------
\* State
\* ------------------------------------------------------------------------
VARIABLES
  prices_file,    \* data/prices.json
  balances_file,  \* data/balances.json
  history_file,   \* data/history.csv
  now,            \* the clock when it was last read, in seconds (a later
                  \* reading shows the same second or a later one)
  rounds,         \* number of rounds executed so far
  last,           \* the last request handled and its response
  disk,           \* the files of the directory save_json works in, by name,
                  \* when save_json is followed step by step
  proc            \* the local variables and the position of the calls that
                  \* are followed step by step

vars == << prices_file, balances_file, history_file, now, rounds, last,
           disk, proc >>

\* a name validate_person_name admits: \s matches the carriage return
CrName == << "A", "\r", "B" >>
X == << "X" >>

\* request inputs
PeopleInputs == { << >>, << X >>, << Jim, X, Bob >> }
NextInputs == { << >>, << X >> }
TieInputs == { "least_recent", "random" }
\* the strategy of the rounds of Spec; SpecLedger runs rounds with both
RunTies == { "least_recent" }
PriceNames == { CrName }
RemoveNames == { Sara, X }
PriceInputs == { [parsable |-> TRUE, mills |-> 125],
                 [parsable |-> TRUE, mills |-> 0] }

NoName == << >>

Request(op) ==
  [op |-> op, ok |-> TRUE, name |-> NoName, people |-> << >>, tie |-> "",
   payer |-> NoName, total |-> 0, included |-> << >>, timestamp |-> << >>,
   history |-> << >>]

\* the data directory is empty and nothing has been requested
InitFiles ==
  /\ prices_file = NoFile
  /\ balances_file = NoFile
  /\ history_file = NoFile
  /\ now = 0
  /\ rounds = 0
  /\ last = Request("start")

Init ==
  /\ InitFiles
  /\ disk = << >>
  /\ proc = << >>

\* mutant: the participants are not debited
DebitAll_None(balances, prices, included) == balances
\* for participant in included: balances[participant] = money(... - price)
RECURSIVE DebitAll(_, _, _)
DebitAll(balances, prices, included) ==
  IF included = << >> THEN balances
  ELSE LET p == Head(included)
           b == DictSet(balances, p,
                        money(Mills(DictGetOr(balances, p, 0)
                                      - DictGet(prices, p))))
       IN  DebitAll(b, prices, Tail(included))

\* routes/run.py: POST /api/run
run_round_endpoint(people_in, tie_strategy) ==
  LET e == _ensure_defaults(prices_file, balances_file, history_file)
      people == IF people_in = << >> THEN DictKeys(e.prices_dec) ELSE people_in
      c == compute_total_cost(e.prices_dec, people)
      req == [Request("run") EXCEPT !.people = people_in, !.tie = tie_strategy]
  IN  /\ prices_file' = e.prices_file
      /\ UNCHANGED << disk, proc >>
      /\ IF c.included = << >> \/ read_history_raises(e.history_file)
         THEN /\ balances_file' = e.balances_file
              /\ history_file' = e.history_file
              /\ UNCHANGED << now, rounds >>
              /\ last' = [req EXCEPT !.ok = FALSE]
         ELSE \E payer \in select_payer(e.balances_dec, c.included,
                                        tie_strategy,
                                        read_history(e.history_file)),
                 t \in {now, now + 1} :
                LET debited == DebitAll(e.balances_dec, e.prices_dec,
                                        c.included)
                    balances_dec ==
                      DictSet(debited, payer,
                              money(Mills(DictGet(debited, payer) + c.total)))
                    timestamp == now_iso(t)
                    hf == append_history_row(e.history_file, timestamp, payer,
                                             c.total, c.included)
                IN  /\ balances_file' = save_json(e.balances_file, balances_dec)
                    /\ history_file' = hf
                    /\ rounds' = rounds + 1
                    /\ now' = t
                    /\ last' = [req EXCEPT !.payer = payer,
                                           !.total = c.total,
                                           !.included = c.included,
                                           !.timestamp = timestamp,
                                           !.history = read_history(hf)]

RunRound ==
  /\ rounds < MaxRounds
  /\ \E people \in PeopleInputs, tie \in RunTies :
        run_round_endpoint(people, tie)

\* routes/set_price.py: POST /api/set-price
set_price_endpoint(name, price_raw) ==
  LET price_dec == parse_price_to_decimal(price_raw)
      e == _ensure_defaults(prices_file, balances_file, history_file)
      prices == DictSet(e.prices_dec, name, price_dec.value)
      balances == DictSetDefault(e.balances_dec, name, 0)
      req == [Request("set_price") EXCEPT !.name = name,
                                          !.total = price_raw.mills]
  IN  /\ UNCHANGED << now, rounds, disk, proc >>
      /\ IF ~validate_person_name(name)
            \/ price_dec.none \/ price_dec.value <= 0
         THEN /\ UNCHANGED << prices_file, balances_file, history_file >>
              /\ last' = [req EXCEPT !.ok = FALSE]
         ELSE /\ prices_file' = save_json(e.prices_file, prices)
              /\ balances_file' = save_json(e.balances_file, balances)
              /\ history_file' = e.history_file
              /\ last' = req

SetPrice ==
  \E name \in PriceNames, price \in PriceInputs :
     set_price_endpoint(name, price)

\* routes/remove_person.py: POST /api/remove-person
\* mutant: the removed balance is handed to the first remaining name
remove_person_endpoint_Transfer(name) ==
  LET e == _ensure_defaults(prices_file, balances_file, history_file)
      prices == IF DictHas(e.prices_dec, name)
                THEN DictDel(e.prices_dec, name) ELSE e.prices_dec
      rest == IF DictHas(e.balances_dec, name)
              THEN DictDel(e.balances_dec, name) ELSE e.balances_dec
      balances == IF DictHas(e.balances_dec, name) /\ rest # << >>
                  THEN DictSet(rest, rest[1][1],
                               rest[1][2] + DictGet(e.balances_dec, name))
                  ELSE rest
      removed == DictHas(e.prices_dec, name) \/ DictHas(e.balances_dec, name)
      req == [Request("remove_person") EXCEPT !.name = name]
  IN  /\ UNCHANGED << now, rounds, disk, proc >>
      /\ IF name = << >>
         THEN /\ UNCHANGED << prices_file, balances_file, history_file >>
              /\ last' = [req EXCEPT !.ok = FALSE]
         ELSE /\ prices_file' = save_json(e.prices_file, prices)
              /\ balances_file' = save_json(e.balances_file, balances)
              /\ history_file' = e.history_file
              /\ last' = [req EXCEPT !.ok = removed]
remove_person_endpoint(name) ==
  LET e == _ensure_defaults(prices_file, balances_file, history_file)
      prices == IF DictHas(e.prices_dec, name)
                THEN DictDel(e.prices_dec, name) ELSE e.prices_dec
      balances == IF DictHas(e.balances_dec, name)
                  THEN DictDel(e.balances_dec, name) ELSE e.balances_dec
      removed == DictHas(e.prices_dec, name) \/ DictHas(e.balances_dec, name)
      req == [Request("remove_person") EXCEPT !.name = name]
  IN  /\ UNCHANGED << now, rounds, disk, proc >>
      /\ IF name = << >>
         THEN /\ UNCHANGED << prices_file, balances_file, history_file >>
              /\ last' = [req EXCEPT !.ok = FALSE]
         ELSE /\ prices_file' = save_json(e.prices_file, prices)
              /\ balances_file' = save_json(e.balances_file, balances)
              /\ history_file' = e.history_file
              /\ last' = [req EXCEPT !.ok = removed]

RemovePerson == \E name \in RemoveNames : remove_person_endpoint(name)

\* routes/reset_balances.py: POST /api/reset-balances
reset_balances_endpoint(clear_history_flag) ==
  LET e == _ensure_defaults(prices_file, balances_file, history_file)
      zeroed_balances == DictMapValues(e.prices_dec, LAMBDA v : 0)
      hf == IF clear_history_flag THEN reset_history(e.history_file)
            ELSE e.history_file
      req == [Request("reset_balances") EXCEPT
                !.tie = IF clear_history_flag THEN "clear" ELSE "keep"]
  IN  /\ UNCHANGED << now, rounds, disk, proc >>
      /\ prices_file' = e.prices_file
      /\ balances_file' = save_json(e.balances_file, zeroed_balances)
      /\ history_file' = hf
      /\ last' = [req EXCEPT !.history = read_history(hf)]

ResetBalances == \E flag \in BOOLEAN : reset_balances_endpoint(flag)

\* routes/clear_history.py: POST /api/clear-history
\* mutant: the log is only created when missing, its rows stay
clear_history_endpoint_KeepRows ==
  LET hf == ensure_history(history_file)
  IN  /\ UNCHANGED << prices_file, balances_file, now, rounds, disk, proc >>
      /\ history_file' = hf
      /\ last' = [Request("clear_history") EXCEPT !.history = read_history(hf)]
clear_history_endpoint ==
  LET hf == reset_history(ensure_history(history_file))
  IN  /\ UNCHANGED << prices_file, balances_file, now, rounds, disk, proc >>
      /\ history_file' = hf
      /\ last' = [Request("clear_history") EXCEPT !.history = read_history(hf)]

\* routes/state.py: GET /api/state
get_state_endpoint ==
  LET hf == ensure_history(history_file)
  IN  /\ UNCHANGED << prices_file, balances_file, now, rounds, disk, proc >>
      /\ history_file' = hf
      /\ last' = [Request("state") EXCEPT !.history = read_history(hf)]

\* routes/next.py: GET /api/next
next_payer_endpoint(people_in, tie_strategy) ==
  LET e == _ensure_defaults(prices_file, balances_file, history_file)
      people == IF people_in = << >> THEN DictKeys(e.prices_dec) ELSE people_in
      c == compute_total_cost(e.prices_dec, people)
      req == [Request("next") EXCEPT !.people = people_in, !.tie = tie_strategy]
  IN  /\ UNCHANGED << now, rounds, disk, proc >>
      /\ prices_file' = e.prices_file
      /\ balances_file' = e.balances_file
      /\ history_file' = e.history_file
      /\ IF c.included = << >> \/ read_history_raises(e.history_file)
         THEN last' = [req EXCEPT !.ok = FALSE]
         ELSE \E payer \in select_payer(e.balances_dec, c.included,
                                        tie_strategy,
                                        read_history(e.history_file)) :
                last' = [req EXCEPT !.payer = payer, !.total = c.total,
                                    !.included = c.included]

NextPayer ==
  \E people \in NextInputs, tie \in TieInputs :
     next_payer_endpoint(people, tie)

Next ==
  \/ RunRound
  \/ SetPrice
  \/ RemovePerson
  \/ ResetBalances
  \/ clear_history_endpoint
  \/ get_state_endpoint
  \/ NextPayer

Spec == Init /\ [][Next]_vars

\* Rounds only: every request is POST /api/run.
LedgerPeople ==
  PeopleInputs \cup { << Jim, Jim >>, << Sara, Bob >>, << Bob, Jim, Jim >> }

LedgerTies == TieInputs \cup { "alpha" }

LedgerRound ==
  /\ rounds < MaxLedgerRounds
  /\ \E people \in LedgerPeople, tie \in LedgerTies :
        run_round_endpoint(people, tie)

SpecLedger == Init /\ [][LedgerRound]_vars

\* Every request is one of POST /api/run, /api/set-price,
\* /api/reset-balances and /api/clear-history: no person is removed.
KeepPeopleInputs == { << >>, << Jim, Jim >>, << Sara, Bob >> }

KeepPeopleRound ==
  /\ rounds < MaxKeepRounds
  /\ \E people \in KeepPeopleInputs, tie \in RunTies :
        run_round_endpoint(people, tie)

KeepPeopleNext ==
  \/ KeepPeopleRound
  \/ SetPrice
  \/ ResetBalances
  \/ clear_history_endpoint

SpecKeepPeople == Init /\ [][KeepPeopleNext]_vars

\* Prices are set for a new name, for a seeded name and under a name that
\* validate_person_name refuses, with amounts of every kind, before and
\* after a round.
BadName == << "A", "_" >>

WidePriceNames == { CrName, Bob, BadName }

WidePriceInputs ==
  { [parsable |-> FALSE, mills |-> 0] }
    \cup { [parsable |-> TRUE, mills |-> m] :
             m \in { -125, 0, 4, 5, 250, 2345 } }

SetAnyPrice ==
  \E name \in WidePriceNames, price \in WidePriceInputs :
     set_price_endpoint(name, price)

\* a round over all the priced names
PricesRound ==
  /\ rounds < MaxPriceRounds
  /\ run_round_endpoint(<< >>, "least_recent")

PricesNext == PricesRound \/ SetAnyPrice

SpecPrices == Init /\ [][PricesNext]_vars

\* People are removed, the seeded ones down to an empty Price record, under
\* names that are priced, that differ from a priced name by case only,
\* that are unknown and that are empty, before and after a round.
LowerSara == << "s", "a", "r", "a" >>

AnyRemoveNames == { Bob, Jim, Sara, LowerSara, X, NoName }

RemoveAny == \E name \in AnyRemoveNames : remove_person_endpoint(name)

RemoveNext == PricesRound \/ RemoveAny

SpecRemove == Init /\ [][RemoveNext]_vars

\* ------------------------------------------------------------------------
\* The five endpoints that call _ensure_defaults, with removals that take
\* the Price record down to empty again and requests that are rejected
\* before _ensure_defaults is reached.
\* ------------------------------------------------------------------------
SpecSeed ==
  Init /\ [][\/ PricesRound
             \/ RemoveAny
             \/ SetPrice
             \/ ResetBalances
             \/ next_payer_endpoint(<< >>, "least_recent")]_vars

\* ------------------------------------------------------------------------
\* The history log on its own: callers of append_history_row, reset_history
\* and read_history with entries of their choice.  rounds counts the
\* appends, last.history lists the entries appended since the last clear.
\* ------------------------------------------------------------------------
PipeName == << "a", "|", "b" >>
QuoteName == << "S", "'", "a", " ", "-", "b" >>

HistEntries ==
  { [payer |-> Bob, total_cost |-> 1250, people |-> << Bob, Jim, Sara >>],
    [payer |-> Jim, total_cost |-> 0, people |-> << >>],
    [payer |-> Sara, total_cost |-> 305, people |-> << Sara, Sara >>],
    [payer |-> QuoteName, total_cost |-> 10, people |-> << QuoteName >>],
    [payer |-> CrName, total_cost |-> 450, people |-> << CrName, Bob >>],
    [payer |-> Bob, total_cost |-> 450, people |-> << << >> >>],
    [payer |-> << >>, total_cost |-> 7, people |-> << << >>, << >> >>],
    [payer |-> PipeName, total_cost |-> 300, people |-> << PipeName, Jim >>] }

HistAppend ==
  /\ rounds < MaxAppends
  /\ \E e \in HistEntries :
        LET timestamp == now_iso(now)
            entry == [timestamp |-> timestamp, payer |-> e.payer,
                      total_cost |-> e.total_cost, people |-> e.people]
        IN  /\ history_file' = append_history_row(history_file, timestamp,
                                   e.payer, e.total_cost, e.people)
            /\ last' = [Request("append") EXCEPT
                          !.payer = e.payer, !.total = e.total_cost,
                          !.included = e.people, !.timestamp = timestamp,
                          !.history = Append(last.history, entry)]
  /\ now' = now + 1
  /\ rounds' = rounds + 1
  /\ UNCHANGED << prices_file, balances_file, disk, proc >>

HistClear ==
  /\ history_file' = reset_history(history_file)
  /\ last' = Request("clear")
  /\ UNCHANGED << prices_file, balances_file, now, rounds, disk, proc >>

HistNext == HistAppend \/ HistClear

SpecHist == Init /\ [][HistNext]_vars

\* ------------------------------------------------------------------------
\* save_json step by step: one caller saves mappings under one path; a step
\* can raise OSError, and the process can die between any two steps.
\* proc.old is the mapping a load returned when save_json was called,
\* proc.swapped tells whether os.replace has been executed.
\* ------------------------------------------------------------------------
SavePath == "balances.json"

\* mutant: the text is written to the path itself
mkstemp_InPlace(path) == path
\* tempfile.mkstemp(prefix=".tmp-", dir=dir_, suffix=".json"): a name in the
\* directory of path that no other file has
mkstemp(path) == ".tmp-.json"

DiskNames == { SavePath, mkstemp(SavePath) }

\* os.replace(src, dst): dst gets the content of src and src is gone, in
\* one step
os_replace(d, src, dst) ==
  IF src = dst THEN d ELSE [d EXCEPT ![dst] = d[src], ![src] = NoFile]

SaveMappings ==
  { EmptyDict,
    << << Bob, 450 >> >>,
    << << Bob, -300 >>, << Jim, 300 >> >>,
    << << Bob, 100 >>, << Jim, -350 >>, << Sara, 250 >> >> }

InitSave ==
  /\ InitFiles
  /\ \E f \in { NoFile } \cup { FileOf(m) : m \in SaveMappings } :
        /\ disk = [n \in DiskNames |-> IF n = SavePath THEN f ELSE NoFile]
        /\ proc = [pc |-> "idle", data |-> EmptyDict,
                   old |-> load_json(f, EmptyDict), failed |-> FALSE,
                   swapped |-> FALSE, saves |-> 0]

SaveUnchanged ==
  UNCHANGED << prices_file, balances_file, history_file, now, rounds, last >>

\* save_json(path, data) is called; os.makedirs finds the directory
SaveCall ==
  /\ proc.pc \in { "idle", "returned", "raised", "crashed" }
  /\ proc.saves < MaxSaves
  /\ \E data \in SaveMappings :
        proc' = [pc |-> "mkstemp", data |-> data,
                 old |-> load_json(disk[SavePath], EmptyDict),
                 failed |-> FALSE, swapped |-> FALSE,
                 saves |-> proc.saves + 1]
  /\ UNCHANGED disk
  /\ SaveUnchanged

\* fd, tmp = tempfile.mkstemp(...): the temporary file exists and is empty
SaveMkstemp ==
  /\ proc.pc = "mkstemp"
  /\ disk' = [disk EXCEPT ![mkstemp(SavePath)] = PartFile(<< >>)]
  /\ proc' = [proc EXCEPT !.pc = "dump"]
  /\ SaveUnchanged

\* json.dump(data, f, ...); f.flush(): the text reaches the temporary file
\* item by item, the closing brace last
SaveDump ==
  /\ proc.pc = "dump"
  /\ LET tmp == mkstemp(SavePath)
         n == Len(disk[tmp].data)
     IN  IF n < Len(proc.data)
         THEN /\ disk' = [disk EXCEPT
                            ![tmp] = PartFile(SubSeq(proc.data, 1, n + 1))]
              /\ UNCHANGED proc
         ELSE /\ disk' = [disk EXCEPT ![tmp] = FileOf(proc.data)]
              /\ proc' = [proc EXCEPT !.pc = "fsync"]
  /\ SaveUnchanged

\* os.fsync(f.fileno()) and the end of the with block
SaveFsync ==
  /\ proc.pc = "fsync"
  /\ proc' = [proc EXCEPT !.pc = "replace"]
  /\ UNCHANGED disk
  /\ SaveUnchanged

\* os.replace(tmp, path)
SaveReplace ==
  /\ proc.pc = "replace"
  /\ disk' = os_replace(disk, mkstemp(SavePath), SavePath)
  /\ proc' = [proc EXCEPT !.pc = "finally", !.swapped = TRUE]
  /\ SaveUnchanged

\* the step raises: mkstemp is outside the try block, the other steps are
\* inside and lead to the finally block
SaveFails ==
  /\ proc.pc \in { "mkstemp", "dump", "fsync", "replace" }
  /\ proc' = IF proc.pc = "mkstemp"
             THEN [proc EXCEPT !.pc = "raised", !.failed = TRUE]
             ELSE [proc EXCEPT !.pc = "finally", !.failed = TRUE]
  /\ UNCHANGED disk
  /\ SaveUnchanged

\* finally: if os.path.exists(tmp): os.remove(tmp)
SaveFinally ==
  /\ proc.pc = "finally"
  /\ LET tmp == mkstemp(SavePath)
     IN  disk' = IF disk[tmp].exists THEN [disk EXCEPT ![tmp] = NoFile]
                 ELSE disk
  /\ proc' = [proc EXCEPT !.pc = IF proc.failed THEN "raised" ELSE "returned"]
  /\ SaveUnchanged

\* the process dies; the files stay as they are
SaveCrash ==
  /\ proc.pc \in { "mkstemp", "dump", "fsync", "replace", "finally" }
  /\ proc' = [proc EXCEPT !.pc = "crashed"]
  /\ UNCHANGED disk
  /\ SaveUnchanged

SaveNext ==
  \/ SaveCall
  \/ SaveMkstemp
  \/ SaveDump
  \/ SaveFsync
  \/ SaveReplace
  \/ SaveFails
  \/ SaveFinally
  \/ SaveCrash

SpecSave == InitSave /\ [][SaveNext]_vars

\* ------------------------------------------------------------------------
\* Two requests POST /api/run handled at the same time, each followed
\* through the steps of run_round_endpoint.  proc[p] holds the local
\* variables of request p; proc[p].stale tells that another request has
\* saved the balances since p loaded them, proc[p].order is the rank of p's
\* save among the saves.
\* ------------------------------------------------------------------------
RaceProcs == { 1, 2 }

RacePeople == { << >>, << Bob, Jim >>, << Jim, Sara >>, << X >> }

RaceIdle ==
  [pc |-> "idle", people |-> << >>, prices_dec |-> EmptyDict,
   balances_dec |-> EmptyDict, total |-> 0, included |-> << >>,
   payer |-> NoName, stale |-> FALSE, order |-> 0]

InitRace ==
  /\ InitFiles
  /\ disk = << >>
  /\ proc = [p \in RaceProcs |-> RaceIdle]

\* the payload is parsed, _ensure_defaults loads the prices and the
\* balances, compute_total_cost filters the people
RaceLoad(p) ==
  /\ proc[p].pc = "idle"
  /\ \E people_in \in RacePeople :
        LET e == _ensure_defaults(prices_file, balances_file, history_file)
            people == IF people_in = << >> THEN DictKeys(e.prices_dec)
                      ELSE people_in
            c == compute_total_cost(e.prices_dec, people)
        IN  /\ prices_file' = e.prices_file
            /\ balances_file' = e.balances_file
            /\ history_file' = e.history_file
            /\ proc' = [proc EXCEPT ![p] =
                          [RaceIdle EXCEPT
                             !.pc = IF c.included = << >> THEN "rejected"
                                    ELSE "loaded",
                             !.people = people_in,
                             !.prices_dec = e.prices_dec,
                             !.balances_dec = e.balances_dec,
                             !.total = c.total,
                             !.included = c.included]]
  /\ UNCHANGED << now, rounds, last, disk >>

\* select_payer with the history as it is read now, then the debits and
\* the credit on the balances held in memory
RaceSelect(p) ==
  /\ proc[p].pc = "loaded"
  /\ ~read_history_raises(history_file)
  /\ \E payer \in select_payer(proc[p].balances_dec, proc[p].included,
                                "least_recent", read_history(history_file)) :
        LET debited == DebitAll(proc[p].balances_dec, proc[p].prices_dec,
                                proc[p].included)
            balances_dec ==
              DictSet(debited, payer,
                      money(Mills(DictGet(debited, payer) + proc[p].total)))
        IN  proc' = [proc EXCEPT ![p].pc = "computed",
                                 ![p].payer = payer,
                                 ![p].balances_dec = balances_dec]
  /\ UNCHANGED << prices_file, balances_file, history_file, now, rounds,
                  last, disk >>

\* save_json(BALANCES_FILE, ...)
RaceSave(p) ==
  /\ proc[p].pc = "computed"
  /\ balances_file' = save_json(balances_file, proc[p].balances_dec)
  /\ proc' = [q \in RaceProcs |->
               IF q = p
               THEN [proc[p] EXCEPT
                       !.pc = "saved",
                       !.order = 1 + Cardinality({ r \in RaceProcs :
                                      proc[r].pc \in { "saved", "done" } })]
               ELSE IF proc[q].pc \in { "loaded", "computed" }
                    THEN [proc[q] EXCEPT !.stale = TRUE]
                    ELSE proc[q]]
  /\ UNCHANGED << prices_file, history_file, now, rounds, last, disk >>

\* timestamp = now_iso(); append_history_row(...)
RaceAppend(p) ==
  /\ proc[p].pc = "saved"
  /\ \E t \in { now, now + 1 } :
        /\ history_file' = append_history_row(history_file, now_iso(t),
                                proc[p].payer, proc[p].total,
                                proc[p].included)
        /\ now' = t
  /\ rounds' = rounds + 1
  /\ proc' = [proc EXCEPT ![p].pc = "done"]
  /\ UNCHANGED << prices_file, balances_file, last, disk >>

RaceNext ==
  \E p \in RaceProcs :
     \/ RaceLoad(p)
     \/ RaceSelect(p)
     \/ RaceSave(p)
     \/ RaceAppend(p)

SpecRace == InitRace /\ [][RaceNext]_vars

\* The same requests when a request can fail between two steps (the
\* process dies, or now_iso or append_history_row raises): nothing in
\* run_round_endpoint catches the failure or undoes a step already made.
RaceFail(p) ==
  /\ proc[p].pc \in { "computed", "saved" }
  /\ proc' = [proc EXCEPT ![p].pc = "failed"]
  /\ UNCHANGED << prices_file, balances_file, history_file, now, rounds,
                  last, disk >>

FailNext == RaceNext \/ \E p \in RaceProcs : RaceFail(p)

SpecFail == InitRace /\ [][FailNext]_vars

\* ------------------------------------------------------------------------
\* A POST /api/set-price for a new name and a POST /api/run handled at the
\* same time, each followed through its loads and saves.  proc.set_price
\* and proc.run hold the local variables of the two requests.
\* ------------------------------------------------------------------------
\* the payload of the setPrice: a new name and 2.50
PriceRacePayload == [name |-> X, price |-> [parsable |-> TRUE, mills |-> 2500]]

\* the data directory is empty, or it holds the seeded defaults
InitPriceRace ==
  /\ now = 0
  /\ rounds = 0
  /\ last = Request("start")
  /\ disk = << >>
  /\ proc = [k \in { "set_price", "run" } |->
               [pc |-> "idle", raw_prices |-> EmptyDict,
                prices_dec |-> EmptyDict, balances_dec |-> EmptyDict]]
  /\ \/ /\ prices_file = NoFile
        /\ balances_file = NoFile
        /\ history_file = NoFile
     \/ /\ prices_file = FileOf(DefaultPrices)
        /\ balances_file = FileOf(DictMapValues(DefaultPrices, LAMBDA v : 0))
        /\ history_file = FileOf(<< HEADER >>)

\* _ensure_defaults: raw_prices = load_json(PRICES_FILE, {}), reached once
\* the input passed validation
BootLoadPrices(k) ==
  /\ proc[k].pc = "idle"
  /\ k = "set_price" =>
        /\ validate_person_name(PriceRacePayload.name)
        /\ ~parse_price_to_decimal(PriceRacePayload.price).none
        /\ parse_price_to_decimal(PriceRacePayload.price).value > 0
  /\ proc' = [proc EXCEPT ![k].pc = "prices_loaded",
                          ![k].raw_prices = load_json(prices_file, EmptyDict)]
  /\ UNCHANGED << prices_file, balances_file, history_file, now, rounds,
                  last, disk >>

\* _ensure_defaults: raw_balances = load_json(BALANCES_FILE, {}),
\* ensure_history, the defaults, the normalisation and the setdefaults
BootLoadBalances(k) ==
  /\ proc[k].pc = "prices_loaded"
  /\ LET raw_balances == load_json(balances_file, EmptyDict)
         seeded == IF proc[k].raw_prices = EmptyDict THEN DefaultPrices
                   ELSE proc[k].raw_prices
         prices_dec == normalize_prices(seeded)
     IN  proc' = [proc EXCEPT
                    ![k].pc = "loaded",
                    ![k].prices_dec = prices_dec,
                    ![k].balances_dec =
                       SetDefaultAll(normalize_balances(raw_balances),
                                     DictKeys(prices_dec))]
  /\ history_file' = ensure_history(history_file)
  /\ UNCHANGED << prices_file, balances_file, now, rounds, last, disk >>

\* _ensure_defaults: save_json(PRICES_FILE, ...)
BootSavePrices(k) ==
  /\ proc[k].pc = "loaded"
  /\ prices_file' = save_json(prices_file, proc[k].prices_dec)
  /\ proc' = [proc EXCEPT ![k].pc = "prices_normalized"]
  /\ UNCHANGED << balances_file, history_file, now, rounds, last, disk >>

\* _ensure_defaults: save_json(BALANCES_FILE, ...)
BootSaveBalances(k) ==
  /\ proc[k].pc = "prices_normalized"
  /\ balances_file' = save_json(balances_file, proc[k].balances_dec)
  /\ proc' = [proc EXCEPT ![k].pc = "ready"]
  /\ UNCHANGED << prices_file, history_file, now, rounds, last, disk >>

\* set_price_endpoint: prices[name] = float(price_dec),
\* balances.setdefault(name, 0.0), save_json(PRICES_FILE, prices)
SetPriceSavePrices ==
  /\ proc.set_price.pc = "ready"
  /\ LET price_dec == parse_price_to_decimal(PriceRacePayload.price)
         prices == DictSet(proc.set_price.prices_dec, PriceRacePayload.name,
                           price_dec.value)
         balances == DictSetDefault(proc.set_price.balances_dec,
                                    PriceRacePayload.name, 0)
     IN  /\ prices_file' = save_json(prices_file, prices)
         /\ proc' = [proc EXCEPT !.set_price.pc = "prices_saved",
                                 !.set_price.prices_dec = prices,
                                 !.set_price.balances_dec = balances]
  /\ UNCHANGED << balances_file, history_file, now, rounds, last, disk >>

\* set_price_endpoint: save_json(BALANCES_FILE, balances)
SetPriceSaveBalances ==
  /\ proc.set_price.pc = "prices_saved"
  /\ balances_file' = save_json(balances_file, proc.set_price.balances_dec)
  /\ proc' = [proc EXCEPT !.set_price.pc = "done"]
  /\ UNCHANGED << prices_file, history_file, now, rounds, last, disk >>

\* run_round_endpoint over all the priced names it loaded: the total, the
\* payer, the debits and the credit, save_json(BALANCES_FILE, ...)
RunSaveBalances ==
  /\ proc.run.pc = "ready"
  /\ ~read_history_raises(history_file)
  /\ LET c == compute_total_cost(proc.run.prices_dec,
                                 DictKeys(proc.run.prices_dec))
     IN  \E payer \in select_payer(proc.run.balances_dec, c.included,
                                   "least_recent",
                                   read_history(history_file)) :
           LET debited == DebitAll(proc.run.balances_dec,
                                   proc.run.prices_dec, c.included)
               balances_dec ==
                 DictSet(debited, payer,
                         money(Mills(DictGet(debited, payer) + c.total)))
           IN  /\ balances_file' = save_json(balances_file, balances_dec)
               /\ proc' = [proc EXCEPT !.run.pc = "balances_saved",
                                       !.run.balances_dec = balances_dec]
               /\ last' = [Request("run") EXCEPT
                             !.payer = payer, !.total = c.total,
                             !.included = c.included]
  /\ UNCHANGED << prices_file, history_file, now, rounds, disk >>

\* run_round_endpoint: timestamp = now_iso(); append_history_row(...)
RunAppend ==
  /\ proc.run.pc = "balances_saved"
  /\ history_file' = append_history_row(history_file, now_iso(now),
                        last.payer, last.total, last.included)
  /\ now' = now + 1
  /\ rounds' = rounds + 1
  /\ proc' = [proc EXCEPT !.run.pc = "done"]
  /\ UNCHANGED << prices_file, balances_file, last, disk >>

SpecPriceRace ==
  InitPriceRace
    /\ [][\/ \E k \in { "set_price", "run" } :
                \/ BootLoadPrices(k)
                \/ BootLoadBalances(k)
                \/ BootSavePrices(k)
                \/ BootSaveBalances(k)
          \/ SetPriceSavePrices
          \/ SetPriceSaveBalances
          \/ RunSaveBalances
          \/ RunAppend]_vars

\* ------------------------------------------------------------------------
\* The two payer selectors on their own: proc holds the arguments of the
\* calls (chosen at the start and the same for every call of a behaviour),
\* last the selector called last and the payer it returned.
\* ------------------------------------------------------------------------
SelectBalances ==
  { << << Bob, 0 >>, << Jim, 0 >>, << Sara, 0 >> >>,
    << << Bob, -450 >>, << Jim, 900 >>, << Sara, -450 >> >>,
    << << Bob, 300 >>, << Jim, -300 >>, << Sara, 0 >> >>,
    << << Bob, 0 >>, << Jim, 0 >> >> }

SelectCandidates ==
  { << Bob, Jim, Sara >>, << Sara, Jim, Bob >>, << Sara, Bob >>,
    << Jim, Sara >>, << Sara >> }

\* a row of the history as read_history returns it
PaidRow(t, payer) ==
  [timestamp |-> now_iso(t), payer |-> payer, total_cost |-> 1250,
   people |-> << Bob, Jim, Sara >>]

SelectHistories ==
  { << >>,
    << PaidRow(1, Bob) >>,
    << PaidRow(1, Bob), PaidRow(2, Sara) >>,
    << PaidRow(1, Sara), PaidRow(2, Bob), PaidRow(3, Sara) >>,
    << PaidRow(1, Sara), PaidRow(1, Bob), PaidRow(1, Jim) >>,
    << PaidRow(1, Jim), PaidRow(2, Sara), PaidRow(3, Bob) >> }

SelectTies ==
  { "least_recent", "alpha", "random", "round_robin", "foo", "", " Random ",
    "ALPHA" }

InitSelect ==
  /\ InitFiles
  /\ disk = << >>
  /\ \E balances \in SelectBalances, candidates \in SelectCandidates,
        tie \in SelectTies, history \in SelectHistories :
        proc = [balances |-> balances, candidates |-> candidates,
                tie |-> tie, history |-> history]

SelectUnchanged ==
  UNCHANGED << prices_file, balances_file, history_file, now, rounds, disk,
               proc >>

\* select_payer of storage/json_store.py is called
SelectStore ==
  /\ ~select_payer_raises(proc.balances, proc.candidates)
  /\ \E payer \in select_payer(proc.balances, proc.candidates, proc.tie,
                                proc.history) :
        last' = [Request("select_payer") EXCEPT !.payer = payer]
  /\ SelectUnchanged

\* select_payer of utils/tie_strategies.py is called
SelectUtils ==
  /\ ~tie_select_payer_raises(proc.balances, proc.candidates)
  /\ \E payer \in tie_select_payer(proc.balances, proc.candidates, proc.tie,
                                    proc.history) :
        last' = [Request("tie_select_payer") EXCEPT !.payer = payer]
  /\ SelectUnchanged

\* select_payer of utils/tie_strategies.py is called and raises ValueError
SelectRaises ==
  /\ tie_select_payer_raises(proc.balances, proc.candidates)
  /\ last' = [Request("tie_select_payer") EXCEPT !.ok = FALSE]
  /\ SelectUnchanged

SelectNext == SelectStore \/ SelectUtils \/ SelectRaises

SpecSelect == InitSelect /\ [][SelectNext]_vars

\* ------------------------------------------------------------------------
\* Rounds over all the participants when they have the same price and the
\* same balance to start with (as setPrice, removePerson and resetBalances
\* can leave them).  proc.balances holds the Balance record at the start.
\* ------------------------------------------------------------------------
CycleTies == { "least_recent", "random", "alpha", "round_robin" }

InitCycle ==
  /\ rounds = 0
  /\ last = Request("start")
  /\ disk = << >>
  /\ \E names \in { << Jim, Bob >>, << Bob, Jim, Sara >> }, price \in { 300 },
        balance \in { 0, -300 }, paid_before \in BOOLEAN :
        /\ prices_file = FileOf([i \in DOMAIN names |-> << names[i], price >>])
        /\ balances_file =
             FileOf([i \in DOMAIN names |-> << names[i], balance >>])
        /\ proc = [balances |-> [i \in DOMAIN names |-> << names[i], balance >>]]
        /\ history_file =
             IF paid_before
             THEN append_history_row(FileOf(<< HEADER >>), now_iso(0),
                                     names[1], Len(names) * price, names)
             ELSE FileOf(<< HEADER >>)
        /\ now = IF paid_before THEN 1 ELSE 0

\* POST /api/run without people: everyone priced is included
CycleRound ==
  /\ rounds < MaxCycleRounds
  /\ \E tie \in CycleTies : run_round_endpoint(<< >>, tie)

SpecCycle == InitCycle /\ [][CycleRound]_vars

\* ------------------------------------------------------------------------
\* The two money functions on their own: proc holds the value of the next
\* call and the number of calls made; each call is made on the value the
\* call before returned.
\* ------------------------------------------------------------------------
MoneyValues ==
  { NoneValue, TextValue }
    \cup { NumberValue(m) : m \in (0 - MaxMills)..MaxMills }
    \cup { NumberValue(2345), NumberValue(-2345) }

InitMoney ==
  /\ InitFiles
  /\ disk = << >>
  /\ \E value \in MoneyValues : proc = [value |-> value, calls |-> 0]

MoneyUnchanged ==
  UNCHANGED << prices_file, balances_file, history_file, now, rounds, disk >>

MoneyReturn(op, r) ==
  /\ last' = [Request(op) EXCEPT !.ok = ~r.raises, !.total = r.cents]
  /\ proc' = [value |-> IF r.raises THEN proc.value
                        ELSE NumberValue(Mills(r.cents)),
              calls |-> proc.calls + 1]

\* money of storage/money_utils.py is called
MoneyStore ==
  /\ proc.calls < MaxMoneyCalls
  /\ MoneyReturn("money", money_value(proc.value))
  /\ MoneyUnchanged

\* money of utils/money.py is called
MoneyUtils ==
  /\ proc.calls < MaxMoneyCalls
  /\ MoneyReturn("utils_money", utils_money(proc.value))
  /\ MoneyUnchanged

MoneyNext == MoneyStore \/ MoneyUtils

SpecMoney == InitMoney /\ [][MoneyNext]_vars

\* ------------------------------------------------------------------------
\* Vocabulary of the properties
\* ------------------------------------------------------------------------
\* the Price and Balance records as a load returns them
PriceRecord == load_json(prices_file, EmptyDict)
BalanceRecord == load_json(balances_file, EmptyDict)

\* the balance of p in a balances file (a name without an entry owes nothing)
Bal(f, p) == DictGetOr(load_json(f, EmptyDict), p, 0)

\* the step is a round that ran to completion
RoundDone == rounds' = rounds + 1

\* the step is a round that was rejected
RoundRejected == last'.op = "run" /\ ~last'.ok /\ rounds' = rounds

RECURSIVE SumSeq(_)
SumSeq(vals) == IF vals = << >> THEN 0 ELSE Head(vals) + SumSeq(Tail(vals))

\* balance after the step minus balance before it
Delta(p) == Bal(balances_file', p) - Bal(balances_file, p)

\* C1: in every completed round the balance changes of the included
\* participants sum to exactly zero.
C1_ZeroSum ==
  [][RoundDone =>
       LET who == Dedup(last'.included)
       IN  SumSeq([i \in DOMAIN who |-> Delta(who[i])]) = 0]_vars

\* a round with several participants has moved money
C1_Witness ==
  /\ last.op = "run" /\ last.ok
  /\ Cardinality(SeqToSet(last.included)) >= 2
  /\ \E p \in SeqToSet(last.included) : Bal(balances_file, p) > 0
  /\ \E p \in SeqToSet(last.included) : Bal(balances_file, p) < 0

\* C2: the payer of a completed round is one of the included participants
\* and no included participant had a lower balance before the round.
C2_PayerHasMinBalance ==
  [][RoundDone =>
       /\ last'.payer \in SeqToSet(last'.included)
       /\ \A q \in SeqToSet(last'.included) :
            Bal(balances_file, last'.payer) <= Bal(balances_file, q)]_vars

\* Bob paid a round for Jim and himself, so Jim alone had the least balance
\* when the next round of the two was run, and Jim paid it
C2_Witness ==
  /\ last.op = "run" /\ last.ok /\ rounds = 2
  /\ Len(last.history) = 2
  /\ last.history[1].payer = Bob
  /\ SeqToSet(last.history[1].people) = {Jim, Bob}
  /\ SeqToSet(last.included) = {Jim, Bob}
  /\ last.payer = Jim

\* C3 as stated: every included participant other than the payer is one own
\* price down, and the payer is up by the total minus the own price.
C3_DebitsAndCredit ==
  [][RoundDone =>
       LET price(p) == DictGet(load_json(prices_file', EmptyDict), p)
       IN  /\ \A p \in SeqToSet(last'.included) \ {last'.payer} :
                Delta(p) = 0 - price(p)
           /\ Delta(last'.payer) = last'.total - price(last'.payer)]_vars

\* C5 as stated: a rejected round leaves the three files as they were.
C5_RejectedRoundChangesNothing ==
  [][RoundRejected =>
       /\ prices_file' = prices_file
       /\ balances_file' = balances_file
       /\ history_file' = history_file]_vars

\* C5, amended: a round rejected while the Price record was not empty leaves
\* the three files as they were.
C5_RejectedRoundChangesNothingOncePriced ==
  [][(RoundRejected /\ PriceRecord # EmptyDict) =>
       /\ prices_file' = prices_file
       /\ balances_file' = balances_file
       /\ history_file' = history_file]_vars

\* a round was rejected although a price had been set for a new name
C5_Witness ==
  /\ last.op = "run" /\ ~last.ok
  /\ DictHas(PriceRecord, CrName)
  /\ last.people = << X >>

\* C7: every name of the Price record has an entry in the Balance record.
C7_PricedNamesHaveBalance ==
  \A i \in DOMAIN PriceRecord : DictHas(BalanceRecord, PriceRecord[i][1])

\* a price was set for a new name, and a participant was removed
C7_Witness ==
  /\ DictHas(PriceRecord, CrName) /\ DictHas(BalanceRecord, CrName)
  /\ ~DictHas(PriceRecord, Sara)
  /\ rounds = 1

\* C9: a completed round adds exactly one entry at the end of the history:
\* its payer is the payer of the round, its total_cost the sum of the prices
\* of the included names, its participants the requested names that have a
\* price, in the order they were given.
C9_RoundAppendsItsEntry ==
  [][RoundDone =>
       LET before == read_history(history_file)
           after == read_history(history_file')
           prices == load_json(prices_file', EmptyDict)
           asked == IF last'.people = << >> THEN DictKeys(prices)
                    ELSE last'.people
           entry == after[Len(after)]
       IN  /\ Len(after) = Len(before) + 1
           /\ SubSeq(after, 1, Len(before)) = before
           /\ entry.payer = last'.payer
           /\ entry.people = last'.included
           /\ entry.people = SelectSeq(asked, LAMBDA p : DictHas(prices, p))
           /\ entry.total_cost = SumPrices(prices, entry.people)
           /\ last'.history = after]_vars

\* the step appends an entry to the history log
HistAppended == last'.op = "append" /\ rounds' = rounds + 1

NoPipe(name) == \A i \in DOMAIN name : name[i] # "|"

\* an entry all of whose names validate_person_name admits
AdmittedEntry(e) ==
  /\ validate_person_name(e.payer)
  /\ \A i \in DOMAIN e.people : validate_person_name(e.people[i])

\* C6: as long as the log is not cleared, reading it returns exactly the
\* entries appended so far, in the order they were appended (and a log that
\* does not exist reads as the empty sequence); stated for the entries whose
\* names are names the program admits.
C6_ReadAllReturnsAppended ==
  (/\ last.op \in { "start", "append" }
   /\ \A i \in DOMAIN last.history : AdmittedEntry(last.history[i]))
    => read_history(history_file) = last.history

\* C10: an entry whose names are free of "|" is read back, as the last
\* element, with the payer, the total cost in cents and the participants
\* it was appended with.
C10_AppendThenReadAll ==
  [][(/\ HistAppended
      /\ NoPipe(last'.payer)
      /\ \A i \in DOMAIN last'.included : NoPipe(last'.included[i]))
       => LET h == read_history(history_file')
          IN  /\ h # << >>
              /\ h[Len(h)].payer = last'.payer
              /\ h[Len(h)].total_cost = last'.total
              /\ h[Len(h)].people = last'.included]_vars

\* C4: at every step of save_json, failed or crashed ones included, a load
\* of the path succeeds and returns the whole previous mapping until
\* os.replace has run and the whole new mapping from then on.
C4_LoadSeesPreviousOrNew ==
  /\ ~load_json_raises(disk[SavePath])
  /\ load_json(disk[SavePath], EmptyDict) =
       IF proc.swapped THEN proc.data ELSE proc.old

\* the process died while the new mapping was written in part, and the
\* path still holds a different, previous mapping
C4_Witness ==
  /\ proc.pc = "crashed"
  /\ ~proc.swapped
  /\ disk[mkstemp(SavePath)].exists
  /\ ~disk[mkstemp(SavePath)].whole
  /\ disk[mkstemp(SavePath)].data # << >>
  /\ proc.old # proc.data
  /\ proc.old # EmptyDict
  /\ load_json(disk[SavePath], EmptyDict) = proc.old

\* what the round of request p alone does to the balance of name n, all
\* balances being zero before it
RECURSIVE Occurrences(_, _)
Occurrences(seq, n) ==
  IF seq = << >> THEN 0
  ELSE (IF Head(seq) = n THEN 1 ELSE 0) + Occurrences(Tail(seq), n)

OnlyRound(p, n) ==
  (IF proc[p].payer = n THEN proc[p].total ELSE 0)
    - Occurrences(proc[p].included, n) * DictGetOr(DefaultPrices, n, 0)

\* both requests have run their round to the end, and q saved last the
\* balances it had loaded before p saved
LostUpdate(p, q) ==
  /\ p # q
  /\ proc[p].pc = "done" /\ proc[q].pc = "done"
  /\ proc[q].order = 2
  /\ proc[q].stale

\* C8: when two interleaved rounds end and the one that saved last had
\* loaded the balances before the other one saved, the history holds the
\* entries of both rounds and the Balance record holds the debits and the
\* credit of the last saver's round only.
C8_LastSaverOverwrites ==
  \A p, q \in RaceProcs :
     LostUpdate(p, q) =>
        /\ Len(read_history(history_file)) = 2
        /\ \A n \in { Bob, Jim, Sara } :
              Bal(balances_file, n) = OnlyRound(q, n)

\* a lost update: two entries in the history, the balances of one round
C8_Witness ==
  \E p, q \in RaceProcs :
     /\ LostUpdate(p, q)
     /\ Len(read_history(history_file)) = 2
     /\ \E n \in { Bob, Jim, Sara } :
           /\ OnlyRound(p, n) # 0
           /\ Bal(balances_file, n) = OnlyRound(q, n)
           /\ Bal(balances_file, n) # OnlyRound(p, n) + OnlyRound(q, n)

\* the step clears the history log
HistCleared == last'.op \in { "clear", "clear_history" }

\* C11: a clear leaves the log in existence with the header row only,
\* whatever rows it held before; reading it returns the empty sequence and
\* a second clear right after it leaves the very same file.
C11_ClearLeavesHeaderOnly ==
  [][HistCleared =>
       /\ history_file'.exists
       /\ history_file'.data = << HEADER >>
       /\ read_history(history_file') = << >>
       /\ reset_history(history_file') = history_file']_vars

\* the log has been cleared after rows had been appended to it
C11_Witness ==
  /\ last.op = "clear"
  /\ rounds >= 2
  /\ history_file = FileOf(<< HEADER >>)

\* the included names of the round of this step that had the lowest balance
\* before it
TiedBefore ==
  LET who == SeqToSet(last'.included)
  IN  { p \in who : \A q \in who : Bal(balances_file, p) <= Bal(balances_file, q) }

\* the smallest name of a set in str order
SmallestName(names) == CHOOSE p \in names : \A q \in names : ~StrLess(q, p)

\* C12: in a round run with the strategy alpha in which two or more
\* included names share the minimum balance, the payer is the smallest of
\* the tied names in lexicographic order.
C12_AlphaPicksSmallestName ==
  [][(RoundDone /\ last'.tie = "alpha" /\ Cardinality(TiedBefore) >= 2)
       => last'.payer = SmallestName(TiedBefore)]_vars

\* the strategy names the selectors know
StoreStrategies == { "least_recent", "random" }
UtilsStrategies == { "least_recent", "alpha", "random", "round_robin" }

\* C13: called with a strategy string that, trimmed and lower-cased, is
\* none of the recognized names, each selector returns what it returns for
\* least_recent on the same balances, candidates and history.
C13_UnknownStrategyIsLeastRecent ==
  (StripLower(proc.tie) \notin UtilsStrategies) =>
     /\ select_payer(proc.balances, proc.candidates, proc.tie, proc.history)
          = select_payer(proc.balances, proc.candidates, "least_recent",
                         proc.history)
     /\ tie_select_payer(proc.balances, proc.candidates, proc.tie,
                         proc.history)
          = tie_select_payer(proc.balances, proc.candidates, "least_recent",
                             proc.history)

\* the candidates that share the minimum balance
TiedCandidates ==
  LET who == SeqToSet(proc.candidates)
      bal(p) == DictGetOr(proc.balances, p, 0)
  IN  { p \in who : \A q \in who : bal(p) <= bal(q) }

\* every candidate has a balance
CandidatesKnown ==
  \A p \in SeqToSet(proc.candidates) : DictHas(proc.balances, p)

\* a selector was called with an unknown strategy on tied candidates with
\* a history, and returned a payer that is not the first candidate
C13_Witness ==
  /\ last.op \in { "select_payer", "tie_select_payer" }
  /\ proc.tie = "foo"
  /\ proc.history # << >>
  /\ Cardinality(TiedCandidates) >= 2
  /\ last.payer # proc.candidates[1]

\* p never appears as payer in the history of the call
NeverPaid(p) == \A i \in DOMAIN proc.history : proc.history[i].payer # p

\* the time of the most recent payment of p
LastPaidAt(p) ==
  LET times == { _parse_iso(proc.history[i].timestamp).t :
                   i \in { j \in DOMAIN proc.history :
                             proc.history[j].payer = p } }
  IN  CHOOSE t \in times : \A u \in times : u <= t

\* p comes before q in the order of least_recent: never paid first, then
\* the oldest most recent payment, then the name in ascending order
LeastRecentBefore(p, q) ==
  \/ NeverPaid(p) /\ ~NeverPaid(q)
  \/ NeverPaid(p) /\ NeverPaid(q) /\ StrLess(p, q)
  \/ /\ ~NeverPaid(p) /\ ~NeverPaid(q)
     /\ \/ LastPaidAt(p) < LastPaidAt(q)
        \/ LastPaidAt(p) = LastPaidAt(q) /\ StrLess(p, q)

\* the tied candidate that comes first in that order
LeastRecentFirst ==
  CHOOSE p \in TiedCandidates :
    \A q \in TiedCandidates \ { p } : LeastRecentBefore(p, q)

\* C14: under least_recent, when two or more candidates share the minimum
\* balance, the payer is the tied candidate that comes first in the order
\* never paid, then oldest most recent payment, then name ascending.
C14_LeastRecentOrder ==
  (/\ proc.tie = "least_recent"
   /\ CandidatesKnown
   /\ Cardinality(TiedCandidates) >= 2)
    => select_payer(proc.balances, proc.candidates, proc.tie, proc.history)
         = { LeastRecentFirst }

\* the sum of all stored balances
BalanceSum ==
  SumSeq([i \in DOMAIN BalanceRecord |-> BalanceRecord[i][2]])

\* C15: without removePerson, in every state reached from the empty data
\* directory by runRound, setPrice, resetBalances and clearHistory, the
\* sum of all stored balances is exactly zero.
C15_BalancesSumToZero == BalanceSum = 0

\* two rounds were run, a price was set for a new name in between, and
\* the new name and the seeded names hold non-zero balances
C15_Witness ==
  /\ rounds = 2
  /\ DictHas(BalanceRecord, CrName)
  /\ DictGet(BalanceRecord, CrName) # 0
  /\ \E p \in { Bob, Jim, Sara } : DictGet(BalanceRecord, p) > 0
  /\ BalanceSum = 0

\* C16: a round run with an empty (or omitted) people list is the round run
\* with people equal to all names of the Price record: included is the full
\* list of Price names, total is the sum of all prices, and the payer is
\* the one select_payer returns for that list.
C16_EmptyPeopleMeansAllPriced ==
  [][(RoundDone /\ last'.op = "run" /\ last'.people = << >>) =>
       LET e == _ensure_defaults(prices_file, balances_file, history_file)
           names == [i \in DOMAIN PriceRecord' |-> PriceRecord'[i][1]]
       IN  /\ last'.included = names
           /\ last'.total
                = SumSeq([i \in DOMAIN PriceRecord' |-> PriceRecord'[i][2]])
           /\ last'.payer \in select_payer(e.balances_dec, names, last'.tie,
                                           read_history(e.history_file))]_vars

\* a round was run with an empty people list while the Price record held
\* a name added by setPrice next to the seeded ones
C16_Witness ==
  /\ last.op = "run" /\ last.ok /\ last.people = << >>
  /\ rounds = 1
  /\ DictHas(PriceRecord, CrName)
  /\ Len(last.included) = 4
  /\ last.total = 1262

\* a GET /api/state has been served
StateServed == last'.op = "state"

\* C17: getState is a pure read: from any state, including one where the
\* price, balance or history file does not exist yet, the call leaves the
\* three files as they were (none is created, seeded or rewritten).
C17_GetStateChangesNothing ==
  [][StateServed =>
       /\ prices_file' = prices_file
       /\ balances_file' = balances_file
       /\ history_file' = history_file]_vars

\* the first tied candidate in the order of the candidates list
FirstTied ==
  proc.candidates[CHOOSE i \in DOMAIN proc.candidates :
                    /\ proc.candidates[i] \in TiedCandidates
                    /\ \A j \in 1..(i - 1) :
                         proc.candidates[j] \notin TiedCandidates]

\* several candidates share the minimum balance and the history is empty
TiedWithoutHistory ==
  Cardinality(TiedCandidates) >= 2 /\ proc.history = << >>

DeterministicTies == SelectTies \ { "random", " Random " }

\* the same selector is called again
CalledAgain ==
  /\ last.op \in { "select_payer", "tie_select_payer" }
  /\ last'.op = last.op

\* C19: for alpha and least_recent (and every strategy other than random),
\* two calls of select_payer with identical balances, candidates and
\* history return the same payer; only the random strategy can return
\* different payers on identical inputs, and on tied candidates it can.
C19_OnlyRandomVaries ==
  [][/\ (CalledAgain /\ proc.tie \in DeterministicTies)
          => last'.payer = last.payer
     /\ (proc.tie = "random" /\ CandidatesKnown)
          => /\ select_payer(proc.balances, proc.candidates, proc.tie,
                             proc.history) = TiedCandidates
             /\ tie_select_payer(proc.balances, proc.candidates, proc.tie,
                                 proc.history) = TiedCandidates]_vars

\* the selector of the routes was called under least_recent on tied
\* candidates with a history and returned one of them
C19_Witness ==
  /\ last.op = "select_payer"
  /\ proc.tie = "least_recent"
  /\ proc.history # << >>
  /\ Cardinality(TiedCandidates) >= 2
  /\ last.payer \in TiedCandidates

\* a money function has been called on proc.value
MoneyCalled ==
  /\ last'.op \in { "money", "utils_money" }
  /\ proc'.calls = proc.calls + 1

Abs(n) == IF n >= 0 THEN n ELSE 0 - n

\* C20: quantize returns the multiple of 0.01 nearest to its input, an
\* exact half cent being rounded up (0.005 gives 0.01, 2.345 gives 2.35),
\* absent input gives 0.00, and an already quantized value is returned
\* unchanged.
C20_QuantizeHalfUp ==
  [][MoneyCalled =>
       LET v == proc.value
           r == last'.total
       IN  /\ (v.none \/ v.parsable) => last'.ok
           /\ v.none => r = 0
           /\ v.parsable =>
                /\ Abs(Mills(r) - v.mills) <= 5
                /\ Abs(Mills(r) - v.mills) = 5 => Abs(Mills(r)) > Abs(v.mills)
                /\ v.mills = 5 => r = 1
                /\ v.mills = 2345 => r = 235
                /\ v.mills % 10 = 0 => Mills(r) = v.mills]_vars

\* str.lower() on the letters of the model
LowerChar(c) ==
  CASE c = "A" -> "a" [] c = "B" -> "b" [] c = "J" -> "j"
    [] c = "S" -> "s" [] c = "T" -> "t" [] c = "X" -> "x"
    [] OTHER -> c

LowerName(name) == [i \in DOMAIN name |-> LowerChar(name[i])]

\* sub is seq with some of its elements left out
RECURSIVE IsSubsequence(_, _)
IsSubsequence(sub, seq) ==
  IF sub = << >> THEN TRUE
  ELSE IF seq = << >> THEN FALSE
  ELSE IF Head(sub) = Head(seq) THEN IsSubsequence(Tail(sub), Tail(seq))
  ELSE IsSubsequence(sub, Tail(seq))

\* C21: the included list of a round, and the participants of its history
\* entry, keep the order of people and hold no two names equal ignoring
\* case: a repeated name is kept once and is debited its price once.
C21_IncludedWithoutRepeats ==
  [][(RoundDone /\ last'.op = "run") =>
       LET included == last'.included
           people == IF last'.people = << >> THEN DictKeys(PriceRecord')
                     ELSE last'.people
           price(p) == DictGet(PriceRecord', p)
       IN  /\ IsSubsequence(included, people)
           /\ \A i, j \in DOMAIN included :
                i # j => LowerName(included[i]) # LowerName(included[j])
           /\ last'.history[Len(last'.history)].people = included
           /\ \A p \in SeqToSet(included) :
                Delta(p) = (IF p = last'.payer THEN last'.total ELSE 0)
                             - price(p)]_vars

\* the number of tied candidates whose name is smaller than that of p
TiedRank(p) == Cardinality({ q \in TiedCandidates : StrLess(q, p) })

\* the tied candidate at position n (from 0) of the sorted tied list
TiedAt(n) == CHOOSE p \in TiedCandidates : TiedRank(p) = n

\* the rows of the history whose payer is a tied candidate
TiedRows == { i \in DOMAIN proc.history : proc.history[i].payer \in TiedCandidates }

\* the payer of the last of these rows
LastTiedPayer ==
  proc.history[CHOOSE i \in TiedRows : \A j \in TiedRows : j <= i].payer

\* C22: under round_robin with two or more tied candidates, select_payer
\* returns the name that follows, cyclically in the sorted tied list, the
\* most recently appended history payer of the tied set, and the first
\* name of the sorted tied list when no tied candidate has paid.
C22_RoundRobinNextAfterLastPayer ==
  (/\ StripLower(proc.tie) = "round_robin"
   /\ CandidatesKnown
   /\ Cardinality(TiedCandidates) >= 2)
    => LET expected ==
             IF TiedRows = {} THEN TiedAt(0)
             ELSE TiedAt((TiedRank(LastTiedPayer) + 1)
                           % Cardinality(TiedCandidates))
       IN  /\ tie_select_payer(proc.balances, proc.candidates, proc.tie,
                               proc.history) = { expected }
           /\ select_payer(proc.balances, proc.candidates, proc.tie,
                           proc.history) = { expected }

\* the candidates that have an entry in the balances
PresentCandidates ==
  { p \in SeqToSet(proc.candidates) : DictHas(proc.balances, p) }

\* C23: select_payer considers only the candidates that have an entry in
\* balances: it never returns a name that is absent from balances, and it
\* fails with an error when no candidate is present in balances.
C23_OnlyCandidatesWithBalance ==
  /\ select_payer(proc.balances, proc.candidates, proc.tie, proc.history)
       \subseteq PresentCandidates
  /\ tie_select_payer(proc.balances, proc.candidates, proc.tie, proc.history)
       \subseteq PresentCandidates
  /\ PresentCandidates = {}
       => /\ select_payer_raises(proc.balances, proc.candidates)
          /\ tie_select_payer_raises(proc.balances, proc.candidates)

\* a POST /api/run has been handled, accepted or rejected
RunHandled == last'.op = "run" /\ (RoundDone \/ RoundRejected)

\* the entries of the Balance record of the names outside included are
\* the same before and after the step
OthersKeepBalance ==
  \A p \in SeqToSet(DictKeys(BalanceRecord))
             \cup SeqToSet(DictKeys(BalanceRecord')) :
     p \notin SeqToSet(last'.included)
       => /\ DictHas(BalanceRecord, p) /\ DictHas(BalanceRecord', p)
          /\ DictGet(BalanceRecord', p) = DictGet(BalanceRecord, p)

\* C24 as stated: runRound leaves unchanged the balance of every
\* participant that is not in included, and never adds, removes or changes
\* an entry of the Price record.
C24_RoundKeepsOthersAndPrices ==
  [][RunHandled =>
       /\ \A p \in SeqToSet(DictKeys(BalanceRecord')) \ SeqToSet(last'.included) :
            Bal(balances_file', p) = Bal(balances_file, p)
       /\ PriceRecord' = PriceRecord]_vars

\* C24 amended: when the Price record is not empty, runRound leaves the
\* Price record and the balance entries of the names outside included as
\* they were; when it is empty or missing, runRound first seeds the
\* default prices and their 0.00 balances, and changes no balance outside
\* included after that.
C24_RoundKeepsOthersAndPricesOnceSeeded ==
  [][RunHandled =>
       /\ PriceRecord # EmptyDict
            => PriceRecord' = PriceRecord /\ OthersKeepBalance
       /\ PriceRecord = EmptyDict
            => /\ PriceRecord' = DefaultPrices
               /\ \A p \in SeqToSet(DictKeys(BalanceRecord'))
                             \ SeqToSet(last'.included) :
                    /\ Bal(balances_file', p) = Bal(balances_file, p)
                    /\ DictHas(BalanceRecord, p)
                         \/ DictHas(DefaultPrices, p)]_vars

\* a round over Jim and Bob was run on a Price record that also holds Sara
\* and a name added by setPrice, whose balances are still 0.00
C24_Witness ==
  /\ last.op = "run" /\ last.ok
  /\ last.included = << Jim, Bob >>
  /\ DictHas(PriceRecord, CrName) /\ DictHas(PriceRecord, Sara)
  /\ DictGet(BalanceRecord, CrName) = 0
  /\ DictGet(BalanceRecord, Sara) = 0
  /\ DictGet(BalanceRecord, last.payer) > 0

\* request p has made its save_json of the balances
BalancesSaved(p) == proc[p].order > 0

\* request p has appended its history entry
EntryAppended(p) == proc[p].pc = "done"

\* request p failed between its save_json and its append_history_row
FailedAfterSave(p) == proc[p].pc = "failed" /\ BalancesSaved(p)

\* no other request has saved balances
OnlySaver(p) == \A q \in RaceProcs \ { p } : ~BalancesSaved(q)

\* C25: within one runRound the updated balances are made durable before
\* the history entry is appended: whenever the entry of a round is in the
\* history its balances have been saved, and a failure between the two
\* steps leaves the balances updated with no entry for the round.
C25_BalancesBeforeEntry ==
  /\ Len(read_history(history_file))
       = Cardinality({ p \in RaceProcs : EntryAppended(p) })
  /\ \A p \in RaceProcs :
       /\ EntryAppended(p) => BalancesSaved(p)
       /\ (OnlySaver(p) /\ EntryAppended(p))
            => /\ BalanceRecord = proc[p].balances_dec
               /\ read_history(history_file)[1].payer = proc[p].payer
       /\ (OnlySaver(p) /\ FailedAfterSave(p))
            => /\ BalanceRecord = proc[p].balances_dec
               /\ read_history(history_file) = << >>

\* a round over Bob and Jim failed after its balances were saved: the
\* balances are those of the round and the history is empty
C25_Witness ==
  \E p \in RaceProcs :
     /\ OnlySaver(p) /\ FailedAfterSave(p)
     /\ proc[p].included = << Bob, Jim >>
     /\ DictGet(BalanceRecord, proc[p].payer) > 0
     /\ read_history(history_file) = << >>

\* the rows of the history file below its header
HistoryRows(f) == IF f.exists /\ f.data # << >> THEN Tail(f.data) ELSE << >>

\* the step served a request that clears the history
ClearingRequest ==
  \/ last'.op = "clear_history"
  \/ last'.op = "reset_balances" /\ last'.tie = "clear"

PriceSet == last'.op = "set_price" /\ last'.ok

\* the record d without its entry for name
Without(d, name) == SelectSeq(d, LAMBDA kv : kv[1] # name)

\* after the step Price[name] is the given amount to the cent, and
\* Balance[name] is what it was, 0.00 when there was none
NameUpdated(name) ==
  /\ DictHas(PriceRecord', name)
  /\ Abs(Mills(DictGet(PriceRecord', name)) - last'.total) <= 5
  /\ DictHas(BalanceRecord', name)
  /\ DictGet(BalanceRecord', name)
       = (IF DictHas(BalanceRecord, name)
          THEN DictGet(BalanceRecord, name) ELSE 0)

\* C27 as stated: setPrice(name, price) with valid input sets Price[name]
\* to the given price, creates Balance[name] at 0.00 only when the name had
\* no balance entry, leaves an existing Balance[name] unchanged, and
\* changes no other participant's price or balance.
C27_SetPriceTouchesOneName ==
  [][PriceSet =>
       /\ NameUpdated(last'.name)
       /\ Without(PriceRecord', last'.name) = Without(PriceRecord, last'.name)
       /\ Without(BalanceRecord', last'.name)
            = Without(BalanceRecord, last'.name)]_vars

\* C27 amended: the same when the Price record is not empty; when it is
\* empty or missing, setPrice first seeds the default prices with 0.00
\* balances, so that the other entries after the call are the defaults.
C27_SetPriceTouchesOneNameOnceSeeded ==
  [][PriceSet =>
       LET name == last'.name
       IN  /\ NameUpdated(name)
           /\ PriceRecord # EmptyDict
                => /\ Without(PriceRecord', name) = Without(PriceRecord, name)
                   /\ Without(BalanceRecord', name)
                        = Without(BalanceRecord, name)
           /\ PriceRecord = EmptyDict
                => /\ Without(PriceRecord', name)
                        = Without(DefaultPrices, name)
                   /\ Without(BalanceRecord', name)
                        = Without(SetDefaultAll(BalanceRecord,
                                                DictKeys(DefaultPrices)),
                                  name)]_vars

\* after a round that left Bob with a balance, the price of Bob was set to
\* 2.50: the price is stored and the balance is still there
C27_Witness ==
  /\ last.op = "set_price" /\ last.ok
  /\ last.name = Bob /\ last.total = 250
  /\ rounds = 1
  /\ DictGet(PriceRecord, Bob) = 25
  /\ DictGet(BalanceRecord, Bob) # 0
  /\ DictHas(BalanceRecord, CrName)

\* C28: every price accepted by setPrice is stored as the round-half-up
\* quantization of the given amount to two decimals, the rounding of the
\* money normalizer (a price of 2.345 is stored as 2.35).
C28_AcceptedPriceIsHalfUp ==
  [][PriceSet =>
       DictGet(PriceRecord', last'.name) = money(last'.total)]_vars

\* a name as the Price record admits it: 1 to 40 characters, letters,
\* spaces, hyphen and apostrophe only
NameAdmitted(name) ==
  /\ Len(name) >= 1
  /\ Len(name) <= 40
  /\ \A i \in DOMAIN name : name[i] \in Letters \cup { " ", "-", "'" }

\* a POST /api/set-price has been handled
PriceRequested == last'.op = "set_price"

\* C29: setPrice with an invalid name, or with a price that is unparsable,
\* zero, negative or that quantizes to 0.00, is rejected and leaves the
\* Price record, the Balance record and the history unchanged; every
\* stored price is strictly positive in every reachable state.
C29_InvalidSetPriceRejected ==
  [][/\ (PriceRequested /\ (~NameAdmitted(last'.name) \/ money(last'.total) <= 0))
          => /\ ~last'.ok
             /\ prices_file' = prices_file
             /\ balances_file' = balances_file
             /\ history_file' = history_file
     /\ \A i \in DOMAIN PriceRecord' : PriceRecord'[i][2] > 0]_vars

\* a POST /api/remove-person has been handled
PersonRemoved == last'.op = "remove_person"

\* the Price record once the defaults are seeded into an empty one
SeededPrices == IF PriceRecord = EmptyDict THEN DefaultPrices ELSE PriceRecord

\* the Balance record once every name of SeededPrices has a balance
SeededBalances == SetDefaultAll(BalanceRecord, DictKeys(SeededPrices))

\* C30 as stated: removePerson(name) removes exactly the entries of that
\* name (exact, case-sensitive match) from the Price record and from the
\* Balance record, reports ok exactly when at least one of the two existed,
\* and leaves every other price, every other balance and the history
\* unchanged; for a name present in neither the durable state is unchanged.
C30_RemoveTouchesOneName ==
  [][PersonRemoved =>
       LET name == last'.name
           existed == DictHas(PriceRecord, name) \/ DictHas(BalanceRecord, name)
       IN  /\ PriceRecord' = Without(PriceRecord, name)
           /\ BalanceRecord' = Without(BalanceRecord, name)
           /\ last'.ok = existed
           /\ HistoryRows(history_file') = HistoryRows(history_file)
           /\ ~existed => /\ prices_file' = prices_file
                          /\ balances_file' = balances_file
                          /\ history_file' = history_file]_vars

\* C30 amended: the same with the records taken after the default seeding
\* that removePerson runs first on an empty or missing Price record (for a
\* non-empty name): the entries removed, the value of ok and the entries
\* left are those of the seeded records.
C30_RemoveTouchesOneNameOnceSeeded ==
  [][PersonRemoved =>
       LET name == last'.name
           existed == DictHas(SeededPrices, name)
                        \/ DictHas(SeededBalances, name)
       IN  /\ HistoryRows(history_file') = HistoryRows(history_file)
           /\ name # NoName
                => /\ PriceRecord' = Without(SeededPrices, name)
                   /\ BalanceRecord' = Without(SeededBalances, name)
                   /\ last'.ok = existed
           /\ name = NoName
                => /\ ~last'.ok
                   /\ prices_file' = prices_file
                   /\ balances_file' = balances_file
                   /\ history_file' = history_file
           /\ (~existed /\ PriceRecord # EmptyDict)
                => /\ prices_file' = prices_file
                   /\ balances_file' = balances_file
                   /\ history_file' = history_file]_vars

\* after a round Sara was removed: her price and her balance are gone, the
\* other two names keep theirs
C30_Witness ==
  /\ last.op = "remove_person" /\ last.ok /\ last.name = Sara
  /\ rounds = 1
  /\ ~DictHas(PriceRecord, Sara) /\ ~DictHas(BalanceRecord, Sara)
  /\ DictKeys(PriceRecord) = << Bob, Jim >>
  /\ DictGet(BalanceRecord, Bob) # 0
  /\ DictGet(BalanceRecord, Jim) # 0

\* a POST /api/reset-balances has been served
BalancesReset == last'.op = "reset_balances"

\* after the step the Balance record has exactly the names of the Price
\* record, each at 0.00, and the history rows are kept or gone as asked
ZeroedAndHistoryAsAsked ==
  /\ DictKeys(BalanceRecord') = DictKeys(PriceRecord')
  /\ \A i \in DOMAIN BalanceRecord' : BalanceRecord'[i][2] = 0
  /\ last'.tie = "keep"
       => HistoryRows(history_file') = HistoryRows(history_file)
  /\ last'.tie = "clear"
       => /\ HistoryRows(history_file') = << >>
          /\ read_history(history_file') = << >>

\* C31 as stated: after resetBalances the Balance record has exactly the
\* names of the Price record, each with balance 0.00; the Price record is
\* unchanged; the history is unchanged when clearHistory is false and has
\* no entries when clearHistory is true.
C31_ResetZeroesBalances ==
  [][BalancesReset =>
       /\ ZeroedAndHistoryAsAsked
       /\ PriceRecord' = PriceRecord]_vars

\* C31 amended: the same, the Price record being unchanged when it is not
\* empty and being the default prices when it was empty or missing.
C31_ResetZeroesBalancesOnceSeeded ==
  [][BalancesReset =>
       /\ ZeroedAndHistoryAsAsked
       /\ PriceRecord' = SeededPrices]_vars

\* after a round and a setPrice, resetBalances with clearHistory true was
\* served: four names at 0.00 and no history row
C31_Witness ==
  /\ last.op = "reset_balances" /\ last.tie = "clear"
  /\ rounds = 1
  /\ Len(BalanceRecord) = 4
  /\ DictHas(BalanceRecord, CrName)
  /\ \A i \in DOMAIN BalanceRecord : BalanceRecord[i][2] = 0
  /\ history_file.exists /\ HistoryRows(history_file) = << >>

\* a GET /api/next has been served (with a payer or with the 400 answer)
NextServed == last'.op = "next"

\* C32: the next-payer query is read-only: from any state it changes no
\* Price entry, no Balance entry and no history row, and it creates no
\* file.
C32_NextPayerChangesNothing ==
  [][NextServed =>
       /\ PriceRecord' = PriceRecord
       /\ BalanceRecord' = BalanceRecord
       /\ HistoryRows(history_file') = HistoryRows(history_file)
       /\ prices_file'.exists = prices_file.exists
       /\ balances_file'.exists = balances_file.exists
       /\ history_file'.exists = history_file.exists]_vars

\* C33: ensureSchema (ensure_history) is idempotent and non-destructive:
\* when the history log is absent it creates it with only the header, when
\* the log exists it changes nothing, a second call changes nothing more,
\* and the call never alters what readAll (read_history) returns.
C33_EnsureHistoryIdempotent ==
  LET ensured == ensure_history(history_file)
  IN  /\ ~history_file.exists => ensured = FileOf(<< HEADER >>)
      /\ history_file.exists => ensured = history_file
      /\ ensure_history(ensured) = ensured
      /\ read_history(ensured) = read_history(history_file)
      /\ last.op = "state" => /\ ensure_history(history_file) = history_file
                              /\ last.history = read_history(history_file)

\* getState, which calls ensure_history first, was served on a log that
\* holds the entry of a round
C33_Witness ==
  /\ last.op = "state"
  /\ rounds = 1
  /\ Len(HistoryRows(history_file)) = 1
  /\ Len(last.history) = 1

\* C34: in every reachable state where the history log exists its first
\* row is the header, and readAll (read_history) neither returns the header
\* as an entry nor consumes an appended entry as the header: it returns one
\* entry for each entry appended since the last clear, in order.
C34_HeaderIsFirstRow ==
  history_file.exists =>
    /\ Len(history_file.data) >= 1
    /\ history_file.data[1] = HEADER
    /\ ~read_history_raises(history_file)
    /\ Len(read_history(history_file)) = Len(last.history)
    /\ \A i \in DOMAIN last.history :
         read_history(history_file)[i].timestamp = last.history[i].timestamp

\* an entry was appended to a missing log, the log was cleared and another
\* entry was appended: the log holds the header and that one entry
C34_Witness ==
  /\ last.op = "append"
  /\ rounds = 2
  /\ history_file.exists
  /\ Len(history_file.data) = 2
  /\ Len(last.history) = 1
  /\ Len(read_history(history_file)) = 1

\* the step served one of the five operations that bootstrap the records
BootstrapOperation ==
  last'.op \in { "run", "next", "set_price", "remove_person",
                 "reset_balances" }

\* the step served one of them and the handler got as far as
\* _ensure_defaults: a setPrice that passed validation, a removePerson with
\* a name, any runRound, next-payer query or resetBalances
BootstrapReached ==
  \/ last'.op \in { "run", "next", "reset_balances" }
  \/ last'.op = "set_price" /\ last'.ok
  \/ last'.op = "remove_person" /\ last'.name # NoName

\* after the step every default name that the operation itself did not
\* name has its default price and a balance, which is 0.00 unless the
\* operation was a round
DefaultsWritten ==
  \A i \in DOMAIN DefaultPrices :
     LET n == DefaultPrices[i][1]
     IN  n # last'.name =>
           /\ DictHas(PriceRecord', n)
           /\ DictGet(PriceRecord', n) = DefaultPrices[i][2]
           /\ DictHas(BalanceRecord', n)
           /\ last'.op # "run" => DictGet(BalanceRecord', n) = 0

\* after the step no name other than the one the operation names has a new
\* or a changed price, and a name that has gained a balance is a priced
\* name (or the one the operation names) at 0.00
NothingSeeded ==
  /\ \A i \in DOMAIN PriceRecord' :
        LET n == PriceRecord'[i][1]
        IN  n # last'.name => /\ DictHas(PriceRecord, n)
                              /\ DictGet(PriceRecord, n) = PriceRecord'[i][2]
  /\ \A i \in DOMAIN PriceRecord :
        PriceRecord[i][1] # last'.name => DictHas(PriceRecord', PriceRecord[i][1])
  /\ \A i \in DOMAIN BalanceRecord' :
        LET n == BalanceRecord'[i][1]
        IN  ~DictHas(BalanceRecord, n)
              => /\ BalanceRecord'[i][2] = 0
                 /\ DictHas(PriceRecord', n) \/ n = last'.name

\* C35 as stated: default seeding fires exactly when the Price record is
\* empty or missing at the start of runRound, the next-payer query,
\* setPrice, removePerson or resetBalances: the defaults are then written
\* with zero balances before the operation proceeds (also after every
\* participant has been removed); when the Price record is non-empty the
\* bootstrap adds or changes no price and only adds a 0.00 balance for
\* priced names lacking one.
C35_SeedingAtStart ==
  [][BootstrapOperation =>
       /\ PriceRecord = EmptyDict => DefaultsWritten
       /\ PriceRecord # EmptyDict => NothingSeeded]_vars

\* C35 amended: the same for the operations that reach the bootstrap; a
\* setPrice that fails validation and a removePerson without a name are
\* rejected before it and leave an empty Price record empty.
C35_SeedingOnceValidated ==
  [][BootstrapOperation =>
       /\ (BootstrapReached /\ PriceRecord = EmptyDict) => DefaultsWritten
       /\ (BootstrapReached /\ PriceRecord # EmptyDict) => NothingSeeded
       /\ ~BootstrapReached => /\ prices_file' = prices_file
                               /\ balances_file' = balances_file
                               /\ history_file' = history_file]_vars

\* Sara was removed before the round (its entry lists Bob and Jim), then
\* Bob and Jim were removed, leaving the Price record empty, and the
\* next-payer query that followed seeded the three defaults again
C35_Witness ==
  /\ last.op = "next" /\ last.ok
  /\ rounds = 1
  /\ Len(HistoryRows(history_file)) = 1
  /\ read_history(history_file)[1].people = << Bob, Jim >>
  /\ PriceRecord = DefaultPrices
  /\ Len(BalanceRecord) = 3
  /\ \A i \in DOMAIN BalanceRecord : BalanceRecord[i][2] = 0

\* the setPrice and the runRound of SpecPriceRace have both completed
BothCompleted ==
  /\ DOMAIN proc = { "set_price", "run" }
  /\ proc.set_price.pc = "done"
  /\ proc.run.pc = "done"

\* C36: under arbitrary interleavings of the load and save steps of a
\* setPrice for a new name and a concurrent runRound, once both have
\* completed every name of the Price record still has a Balance entry.
C36_PricedNamesKeepBalance ==
  BothCompleted =>
    \A i \in DOMAIN PriceRecord : DictHas(BalanceRecord, PriceRecord[i][1])

\* the number of entries readAll (read_history) returns from a history file
EntryCount(f) == Len(read_history(f))

\* C37: with one request served at a time and none failing, the number of
\* history entries equals the number of successful runRound operations
\* completed since the last history clear (or since the start): it is 0 at
\* the start, one more after every successful round, 0 after clearHistory
\* and after resetBalances with clearHistory true, and the same after every
\* other request.
C37_EntriesCountRounds ==
  /\ EntryCount(history_file) = 0
  /\ [][/\ ~read_history_raises(history_file')
        /\ IF last'.op = "run" /\ last'.ok /\ RoundDone
           THEN EntryCount(history_file') = EntryCount(history_file) + 1
           ELSE IF ClearingRequest
                THEN EntryCount(history_file') = 0
                ELSE EntryCount(history_file') = EntryCount(history_file)
       ]_vars

\* two rounds were completed with a history clear between them: the
\* history holds one entry, that of the second round
C37_Witness ==
  /\ last.op = "run" /\ last.ok
  /\ rounds = 2
  /\ EntryCount(history_file) = 1
  /\ read_history(history_file)[1].timestamp = last.timestamp

\* the sum of the balances of the Balance record after the step
BalanceSumAfter ==
  SumSeq([i \in DOMAIN BalanceRecord' |-> BalanceRecord'[i][2]])

\* C38 as stated: removePerson(n) deletes n's balance without transferring
\* it: the sum of all balances afterwards equals the previous sum minus
\* n's previous balance, and removing a participant whose balance is not
\* zero leaves a total that is not zero.
C38_RemoveDropsBalance ==
  [][PersonRemoved =>
       LET previous == Bal(balances_file, last'.name)
       IN  /\ BalanceSumAfter = BalanceSum - previous
           /\ previous # 0 => BalanceSumAfter # 0]_vars

\* C38 amended: the sum afterwards equals the previous sum minus n's
\* previous balance; removing a participant whose balance is not zero
\* from a Balance record that sums to zero leaves a total that is not zero.
C38_RemoveDropsBalanceFromZeroSum ==
  [][PersonRemoved =>
       LET previous == Bal(balances_file, last'.name)
       IN  /\ BalanceSumAfter = BalanceSum - previous
           /\ (previous # 0 /\ BalanceSum = 0) => BalanceSumAfter # 0]_vars

\* after a round over Bob, Jim and Sara that Bob paid, Jim was removed
\* with his balance of -3.00: the balances left sum to 3.00
C38_Witness ==
  /\ last.op = "remove_person" /\ last.ok /\ last.name = Jim
  /\ rounds = 1
  /\ BalanceRecord = << << Bob, 800 >>, << Sara, -500 >> >>
  /\ BalanceSum = 300

\* the names of the Price record and the number of rounds completed in the
\* block of Len(names) rounds that is under way
CycleNameSet == SeqToSet(DictKeys(PriceRecord))

RoundsInBlock == rounds % Len(PriceRecord)

\* the payers of the last k entries of a history
LastPayers(history, k) ==
  { history[Len(history) + 1 - i].payer : i \in 1..k }

\* C39: with n >= 2 priced participants who all have the same price and
\* equal starting balances, and every round including all of them, under
\* any tie strategy each participant is the payer exactly once in every
\* block of n consecutive rounds and after each block all balances are
\* back to their starting values.  Inside a block the payers so far are
\* distinct and neither selector can return one of them again.
C39_EveryoneOncePerBlock ==
  LET n == Len(PriceRecord)
      history == read_history(history_file)
      paid == LastPayers(history, RoundsInBlock)
  IN  /\ n >= 2
      /\ Cardinality(paid) = RoundsInBlock
      /\ paid \subseteq CycleNameSet
      /\ (rounds > 0 /\ RoundsInBlock = 0)
           => /\ LastPayers(history, n) = CycleNameSet
              /\ BalanceRecord = proc.balances
      /\ \A tie \in CycleTies :
           /\ select_payer(BalanceRecord, DictKeys(PriceRecord), tie,
                           history) \cap paid = {}
           /\ tie_select_payer(BalanceRecord, DictKeys(PriceRecord), tie,
                               history) \cap paid = {}

\* Bob, Jim and Sara, each at 3.00 and 0.00, have completed a block of
\* three rounds whose last round was decided at random: each has paid
\* once and the balances are 0.00 again
C39_Witness ==
  /\ rounds = 3
  /\ Len(PriceRecord) = 3
  /\ last.op = "run" /\ last.ok /\ last.tie = "random"
  /\ LastPayers(read_history(history_file), 3) = { Bob, Jim, Sara }
  /\ DictGet(PriceRecord, Bob) = 300
  /\ BalanceRecord = proc.balances
  /\ \A i \in DOMAIN BalanceRecord : BalanceRecord[i][2] = 0

====
